---- MODULE Spec2Model ----
(***************************************************************************)
(* A model of the core runtime kernel of the mail server:                  *)
(*   - the OAuth token service (crates/jmap/src/auth/oauth/token.rs),      *)
(*   - the authentication pipeline (crates/common/src/lib.rs),             *)
(*   - the IMAP APPEND ingest transaction (crates/imap/src/op/append.rs).  *)
(*                                                                         *)
(* Unsigned machine integers (u32, u64) are kept at their width.  TLC's    *)
(* integers are 32-bit, so a machine word is a sequence of four 16-bit     *)
(* limbs, least significant first; a u32 has its two upper limbs zero.     *)
(* Strings are sequences of Unicode scalar values, byte strings sequences  *)
(* of 0..255.                                                              *)
(***************************************************************************)
EXTENDS Integers, Sequences, FiniteSets, TLC

\* --------------------------------------------------------------------------
\* Machine words
\* --------------------------------------------------------------------------

\* The radix of a limb: 16 bits.
Limb == 256 * 256

\* The word holding the natural number n, 0 <= n < 2^31.
U(n) == <<n % Limb, (n \div Limb) % Limb, 0, 0>>

Zero == <<0, 0, 0, 0>>

\* u32::MAX, the account id of the fallback administrator.
U32_MAX == <<65535, 65535, 0, 0>>

\* u64::MAX.
U64_MAX == <<65535, 65535, 65535, 65535>>

\* x < y on words.
LtW(x, y) ==
    \/ x[4] < y[4]
    \/ x[4] = y[4] /\ x[3] < y[3]
    \/ x[4] = y[4] /\ x[3] = y[3] /\ x[2] < y[2]
    \/ x[4] = y[4] /\ x[3] = y[3] /\ x[2] = y[2] /\ x[1] < y[1]

\* x <= y on words.
LeqW(x, y) == x = y \/ LtW(x, y)

\* The 65-bit sum x + y as <<carry out, low 64 bits>>.
AddCarry(x, y) ==
    LET s1 == x[1] + y[1]
        s2 == x[2] + y[2] + (s1 \div Limb)
        s3 == x[3] + y[3] + (s2 \div Limb)
        s4 == x[4] + y[4] + (s3 \div Limb)
    IN  <<s4 \div Limb, <<s1 % Limb, s2 % Limb, s3 % Limb, s4 % Limb>>>>

\* u64 addition modulo 2^64 (what `+` computes without overflow checks).
WrappingAdd(x, y) == AddCarry(x, y)[2]

\* Whether x + y exceeds u64::MAX.
AddOverflows(x, y) == AddCarry(x, y)[1] # 0

\* x - y for y <= x.
SubW(x, y) ==
    LET d1 == x[1] - y[1]
        b1 == IF d1 < 0 THEN 1 ELSE 0
        d2 == x[2] - y[2] - b1
        b2 == IF d2 < 0 THEN 1 ELSE 0
        d3 == x[3] - y[3] - b2
        b3 == IF d3 < 0 THEN 1 ELSE 0
        d4 == x[4] - y[4] - b3
    IN  <<d1 + b1 * Limb, d2 + b2 * Limb, d3 + b3 * Limb, d4>>

\* u64::saturating_sub.
SaturatingSub(x, y) == IF LeqW(x, y) THEN Zero ELSE SubW(x, y)

\* x >> 7.
Shr7(x) ==
    << (x[1] \div 128) + (x[2] % 128) * 512,
       (x[2] \div 128) + (x[3] % 128) * 512,
       (x[3] \div 128) + (x[4] % 128) * 512,
       x[4] \div 128 >>

\* x << 7, the bits shifted past bit 63 dropped.
Shl7(x) ==
    << (x[1] % 512) * 128,
       (x[2] % 512) * 128 + (x[1] \div 512),
       (x[3] % 512) * 128 + (x[2] \div 512),
       (x[4] % 512) * 128 + (x[3] \div 512) >>

\* The low 32 bits of x (an `as u32` truncation).
Trunc32(x) == <<x[1], x[2], 0, 0>>

\* x / 10 and x % 10 for a u32 word, by long division over the limbs.
Div10(x) ==
    LET t == (x[2] % 10) * Limb + x[1]
    IN  <<t \div 10, x[2] \div 10, 0, 0>>

Mod10(x) == ((x[2] % 10) * Limb + x[1]) % 10

\* --------------------------------------------------------------------------
\* Strings and encodings
\* --------------------------------------------------------------------------

\* The decimal digits of a u32 word, as `{}` formats it.
RECURSIVE Decimal(_)
Decimal(x) ==
    IF x[2] = 0 /\ x[1] < 10
    THEN <<48 + x[1]>>
    ELSE Decimal(Div10(x)) \o <<48 + Mod10(x)>>

\* The UTF-8 encoding of one scalar value: one to four bytes.
Utf8Char(c) ==
    IF c < 128 THEN <<c>>
    ELSE IF c < 2048 THEN <<192 + (c \div 64), 128 + (c % 64)>>
    ELSE IF c < 65536
    THEN <<224 + (c \div 4096), 128 + ((c \div 64) % 64), 128 + (c % 64)>>
    ELSE <<240 + (c \div 262144), 128 + ((c \div 4096) % 64),
           128 + ((c \div 64) % 64), 128 + (c % 64)>>

\* str::as_bytes: the UTF-8 encoding of a string.
RECURSIVE Utf8(_)
Utf8(s) ==
    IF s = <<>> THEN <<>> ELSE Utf8Char(Head(s)) \o Utf8(Tail(s))

\* bytes.copied().map(char::from).collect::<String>(): every byte becomes the
\* scalar value of the same number.
RECURSIVE BytesToChars(_)
BytesToChars(bs) ==
    IF bs = <<>> THEN <<>> ELSE <<Head(bs)>> \o BytesToChars(Tail(bs))

\* u64::to_be_bytes.
ToBeBytes(x) ==
    << x[4] \div 256, x[4] % 256, x[3] \div 256, x[3] % 256,
       x[2] \div 256, x[2] % 256, x[1] \div 256, x[1] % 256 >>

\* Leb128Vec::push_leb128: 7 bits per byte, least significant group first, the
\* high bit set on every byte but the last.
RECURSIVE Leb128(_)
Leb128(x) ==
    IF x[4] = 0 /\ x[3] = 0 /\ x[2] = 0 /\ x[1] < 128
    THEN <<x[1]>>
    ELSE <<128 + (x[1] % 128)>> \o Leb128(Shr7(x))

\* Leb128Iterator::next_leb128 over at most n bytes: the decoded word and the
\* bytes left, or a failure when the input ends, or n bytes pass, before a
\* byte without the high bit.
RECURSIVE NextLeb128(_, _)
NextLeb128(bs, n) ==
    IF n = 0 \/ bs = <<>>
    THEN [ok |-> FALSE, val |-> Zero, rest |-> <<>>]
    ELSE IF Head(bs) < 128
         THEN [ok |-> TRUE, val |-> U(Head(bs)), rest |-> Tail(bs)]
         ELSE LET r == NextLeb128(Tail(bs), n - 1)
              IN  IF ~r.ok THEN r
                  ELSE [ok |-> TRUE,
                        val |-> WrappingAdd(U(Head(bs) - 128), Shl7(r.val)),
                        rest |-> r.rest]

\* A u32 is read from at most 5 bytes, a u64 from at most 10.
LEB_U32_BYTES == 5
LEB_U64_BYTES == 10

NextLeb128U32(bs) ==
    LET r == NextLeb128(bs, LEB_U32_BYTES)
    IN  [ok |-> r.ok, val |-> Trunc32(r.val), rest |-> r.rest]

NextLeb128U64(bs) == NextLeb128(bs, LEB_U64_BYTES)

\* --------------------------------------------------------------------------
\* Values shared by the models
\* --------------------------------------------------------------------------

\* Option<T>: None is the empty sequence, Some(v) the one-element sequence.
None == <<>>
Some(v) == <<v>>

\* Result<T, E> of the token service.
Ok(v) == [ok |-> TRUE, val |-> v, err |-> ""]
Err(e) == [ok |-> FALSE, val |-> <<>>, err |-> e]

\* Strings of the program, as scalar values.
SP == <<32>>
STR_nonce == <<32, 110, 111, 110, 99, 101, 32>>
STR_access_token == <<97, 99, 99, 101, 115, 115, 95, 116, 111, 107, 101, 110>>
STR_refresh_token ==
    <<114, 101, 102, 114, 101, 115, 104, 95, 116, 111, 107, 101, 110>>
STR_Refresh_Token ==
    <<82, 101, 102, 114, 101, 115, 104, 95, 84, 111, 107, 101, 110>>
STR_authorization_code ==
    <<97, 117, 116, 104, 111, 114, 105, 122, 97, 116, 105, 111, 110, 95, 99,
      111, 100, 101>>
STR_device_code ==
    <<117, 114, 110, 58, 105, 101, 116, 102, 58, 112, 97, 114, 97, 109, 115,
      58, 111, 97, 117, 116, 104, 58, 103, 114, 97, 110, 116, 45, 116, 121,
      112, 101, 58, 100, 101, 118, 105, 99, 101, 95, 99, 111, 100, 101>>
STR_password == <<112, 97, 115, 115, 119, 111, 114, 100>>

\* u8::to_ascii_lowercase on a scalar value.
AsciiLower(c) == IF c >= 65 /\ c <= 90 THEN c + 32 ELSE c

\* str::eq_ignore_ascii_case.
EqIgnoreAsciiCase(a, b) ==
    /\ Len(a) = Len(b)
    /\ \A i \in 1..Len(a) : AsciiLower(a[i]) = AsciiLower(b[i])

\* Seconds from the Unix epoch to Jan 1, 2000.
EPOCH_2000 == 946684800

\* The longest client id, in bytes, a token is issued for.  The constant is
\* declared in the parent module of token.rs; 20 is the value it has there.
CLIENT_ID_MAX_LEN == 20

\* --------------------------------------------------------------------------
\* The symmetric encryption envelope and the nonce hash
\* --------------------------------------------------------------------------

\* blake3 over the concatenation of the updates, cut to NONCE_LEN bytes: an
\* ideal hash, so two nonces are equal exactly when their inputs are.
Blake3Nonce(input) == input

\* SymmetricEncrypt::new(key, context).encrypt(plaintext, nonce): the 32-byte
\* ciphertext and tag, kept as what it was made from.
Encrypt(key, context, nonce, plaintext) ==
    [key |-> key, context |-> context, nonce |-> nonce, plaintext |-> plaintext]

\* SymmetricEncrypt::new(key, context).decrypt(ct, nonce): authenticated
\* decryption succeeds exactly under the key, context and nonce of encryption.
Decrypt(key, context, nonce, ct) ==
    IF ct.key = key /\ ct.context = context /\ ct.nonce = nonce
    THEN Ok(ct.plaintext)
    ELSE Err("decrypt")

\* --------------------------------------------------------------------------
\* OAuth token service (token.rs)
\* --------------------------------------------------------------------------

\* Directory::query(QueryBy::Id(id)): the principal's secrets, or None.
QueryById(dir, account_id) ==
    IF account_id \in DOMAIN dir THEN dir[account_id] ELSE None

\* password_hash taking the last secret of the principal instead of the first.
PasswordHash_LastSecret(cfg, dir, account_id, lookup_ok) ==
    IF account_id # U32_MAX
    THEN IF ~lookup_ok THEN Err("Temporary lookup error")
         ELSE LET principal == QueryById(dir, account_id)
              IN  IF principal = None THEN Err("Account no longer exists")
                  ELSE IF principal[1] = <<>>
                       THEN Err("Failed to obtain password hash")
                       ELSE Ok(principal[1][Len(principal[1])])
    ELSE IF cfg.fallback_admin # None
         THEN Ok(cfg.fallback_admin[1].secret)
         ELSE Err("Invalid account id.")

\* JMAP::password_hash.  lookup_ok is whether the directory answers the query.
PasswordHash(cfg, dir, account_id, lookup_ok) ==
    IF account_id # U32_MAX
    THEN IF ~lookup_ok THEN Err("Temporary lookup error")
         ELSE LET principal == QueryById(dir, account_id)
              IN  IF principal = None THEN Err("Account no longer exists")
                  ELSE IF principal[1] = <<>>
                       THEN Err("Failed to obtain password hash")
                       ELSE Ok(Head(principal[1]))
    ELSE IF cfg.fallback_admin # None
         THEN Ok(cfg.fallback_admin[1].secret)
         ELSE Err("Invalid account id.")

\* The context strings of a token.
Context(grant_type, client_id, account_id, password_hash) ==
    grant_type \o SP \o client_id \o SP \o Decimal(account_id) \o SP
        \o password_hash

ContextNonce(grant_type, password_hash) ==
    grant_type \o STR_nonce \o password_hash

\* Lines 284-293: the nonce, a hash of the nonce context and of the expiry.
TokenNonce(grant_type, password_hash, expiry) ==
    Blake3Nonce(Utf8(ContextNonce(grant_type, password_hash)) \o ToBeBytes(expiry))

\* The context and the nonce built without the grant type.
CipherParams_NoGrant(grant_type, client_id, account_id, password_hash, expiry) ==
    [context |-> Context(<<>>, client_id, account_id, password_hash),
     nonce |-> TokenNonce(<<>>, password_hash, expiry)]

\* The context and the nonce a token is encrypted and decrypted under (lines
\* 269-293 and 358-374 build them the same way).
CipherParams(grant_type, client_id, account_id, password_hash, expiry) ==
    [context |-> Context(grant_type, client_id, account_id, password_hash),
     nonce |-> TokenNonce(grant_type, password_hash, expiry)]

\* SystemTime::now() in seconds since Jan 1, 2000, saturating at 0.
NowSince2000(unix) == SaturatingSub(unix, U(EPOCH_2000))

\* JMAP::encode_access_token.  `checks` is whether the build checks integer
\* overflow: the sum then panics instead of wrapping around.
EncodeAccessToken(cfg, unix, checks, grant_type, account_id, password_hash, client_id, expiry_in, seed) ==
    IF Len(Utf8(client_id)) > CLIENT_ID_MAX_LEN
    THEN Err("ClientId is too long")
    ELSE IF checks /\ AddOverflows(NowSince2000(unix), expiry_in)
    THEN Err("panic")
    ELSE LET expiry == WrappingAdd(NowSince2000(unix), expiry_in)
             c == CipherParams(grant_type, client_id, account_id,
                               password_hash, expiry)
         IN  Ok([ct |-> Encrypt(cfg.oauth_key, c.context, c.nonce, seed),
                 trailer |-> Leb128(account_id) \o Leb128(expiry)
                                \o Utf8(client_id)])

\* JMAP::issue_custom_token.
IssueCustomToken(cfg, dir, unix, checks, account_id, grant_type, client_id, expiry_in, seed, lookup_ok) ==
    LET pw == PasswordHash(cfg, dir, account_id, lookup_ok)
    IN  IF ~pw.ok THEN pw
        ELSE EncodeAccessToken(cfg, unix, checks, grant_type, account_id,
                               pw.val, client_id, expiry_in, seed)

\* The trailer of a token: (account_id, expiry, client_id), or a failure.
DecodeTrailer(trailer) ==
    LET a == NextLeb128U32(trailer)
        e == NextLeb128U64(a.rest)
    IN  IF ~a.ok \/ ~e.ok THEN Err("Failed to decode token")
        ELSE Ok([account_id |-> a.val, expiry |-> e.val,
                 client_id |-> BytesToChars(e.rest)])

\* What validate_access_token holds across its await: the values of the
\* trailer and the clock it read.
NoChecked == [account_id |-> Zero, expiry |-> Zero, client_id |-> <<>>, now |-> Zero]

\* validate_access_token going on whatever the expiry is.
ValidateExpiry_Unchecked(unix, token) ==
    LET t == DecodeTrailer(token.trailer)
    IN  IF ~t.ok THEN t
        ELSE Ok([account_id |-> t.val.account_id, expiry |-> t.val.expiry,
                 client_id |-> t.val.client_id, now |-> NowSince2000(unix)])

\* Lines 312-345 of validate_access_token, before anything is awaited: the
\* trailer is decoded, the clock is read and the expiry compared with it.
ValidateExpiry(unix, token) ==
    LET t == DecodeTrailer(token.trailer)
        now == NowSince2000(unix)
    IN  IF ~t.ok THEN t
        ELSE IF LeqW(t.val.expiry, now) THEN Err("Token expired")
        ELSE Ok([account_id |-> t.val.account_id, expiry |-> t.val.expiry,
                 client_id |-> t.val.client_id, now |-> now])

\* Lines 347-391 of validate_access_token, from the answer of password_hash:
\* the directory is the one that answers, the clock is the one read before
\* the await.
ValidateDecrypt(cfg, dir, grant_type, token, checked, lookup_ok) ==
    LET pw == PasswordHash(cfg, dir, checked.account_id, lookup_ok)
    IN  IF ~pw.ok THEN pw
        ELSE LET c == CipherParams(grant_type, checked.client_id,
                                   checked.account_id, pw.val, checked.expiry)
             IN  IF ~Decrypt(cfg.oauth_key, c.context, c.nonce, token.ct).ok
                 THEN Err("Failed to decode token")
                 ELSE Ok([account_id |-> checked.account_id,
                          client_id |-> checked.client_id,
                          time_left |-> SubW(checked.expiry, checked.now)])

\* validate_access_token from the outcome `checked` of its expiry check to its
\* first suspension or its return.  password_hash awaits the directory for
\* every account but the fallback administrator's (u32::MAX), whose secret is
\* in the configuration: that call returns without suspending.
ValidateSuspend(cfg, dir, grant_type, token, checked) ==
    IF ~checked.ok
    THEN [pending |-> FALSE, res |-> checked, checked |-> NoChecked]
    ELSE IF checked.val.account_id = U32_MAX
    THEN [pending |-> FALSE, checked |-> checked.val,
          res |-> ValidateDecrypt(cfg, dir, grant_type, token, checked.val, TRUE)]
    ELSE [pending |-> TRUE, res |-> Err(""), checked |-> checked.val]

\* A call of validate_access_token up to its first suspension or its return.
ValidateCall(cfg, dir, unix, grant_type, token) ==
    ValidateSuspend(cfg, dir, grant_type, token, ValidateExpiry(unix, token))

\* --------------------------------------------------------------------------
\* State
\* --------------------------------------------------------------------------

VARIABLES
    unix_now,      \* SystemTime::now(), seconds since the Unix epoch (a word)
    ticks,         \* how many seconds passed since the initial state
    shared_core,   \* SharedCore: the configuration snapshot now published
    directory,     \* the directory: account id -> Option<secrets of the principal>
    issued,        \* the token issue_custom_token returned, with what it was issued for
    result,        \* what the last operation of the token service returned
    lookup,        \* the lookup store: code -> Option<OAuthCode> under "oauth:{code}"
    store_log,     \* the calls of the lookup store each token request made, in order
    req,           \* the token requests in flight: request -> its locals
    fail2ban,      \* fail-to-ban: <<remote ip, login>> -> failed attempts recorded
    auth,          \* the calls of authenticate: call -> its position, inputs and result
    imap_in,       \* IMAP session: the commands the read loop has not taken yet
    handler,       \* IMAP session: handle_append as the read loop awaits it
    tasks,         \* IMAP session: tag -> the detached APPEND task of that command
    written,       \* IMAP session: the responses written on the session writer, in order
    broadcasts,    \* the StateChange broadcasts emitted, in order
    ingested,      \* the calls of the ingest port, in order, with their outcomes
    store,         \* the message store: last change id, next ids, document -> mailbox and uid
    http           \* a call of bytes_with_limit: its inputs, its locals and what it returned

tokenVars == <<unix_now, ticks, shared_core, directory, issued, result>>

oauthVars == <<lookup, store_log, req>>

authVars == <<fail2ban, auth>>

appendVars == <<imap_in, handler, tasks, written, broadcasts, ingested, store>>

httpVars == <<http>>

vars == <<tokenVars, oauthVars, authVars, appendVars, httpVars>>

\* --------------------------------------------------------------------------
\* Inputs of the token service
\* --------------------------------------------------------------------------

\* How many seconds the clock advances.
MaxTicks == 3

\* Password hashes, as the directory stores them ("$1", "$2").
HASH_1 == <<36, 49>>
HASH_2 == <<36, 50>>

\* Client ids: "a", "e" with an acute accent (U+00E9), and 21 letters.
CLIENT_a == <<97>>
CLIENT_e_acute == <<233>>
CLIENT_long == [i \in 1..(CLIENT_ID_MAX_LEN + 1) |-> 97]

ClientIds == {CLIENT_a, CLIENT_e_acute, CLIENT_long}

\* The account of the directory, and the fallback administrator's.
ACCOUNT_1 == U(1)

AccountIds == {ACCOUNT_1, U32_MAX}

GrantTypes == {STR_access_token, STR_refresh_token}

ExpiryIns == {U(1), U(2), U64_MAX}

\* The 16 random bytes thread_rng() draws for a token.
SEED_1 == "r1"

Seeds == {SEED_1, "r2"}

\* What the directory can hold for ACCOUNT_1: no principal, or its secrets.
PrincipalStates == {None, Some(<<HASH_1>>), Some(<<HASH_2>>), Some(<<HASH_2, HASH_1>>)}

\* The name of the fallback administrator ("root") and of the master suffix.
STR_root == <<114, 111, 111, 116>>

\* Configuration snapshots (the JmapConfig of a Core).
Core1 ==
    [id |-> 1, oauth_key |-> "key1",
     oauth_expiry_token |-> U(1),
     oauth_expiry_refresh_token |-> U(3),
     oauth_expiry_refresh_token_renew |-> U(2),
     fallback_admin |-> Some([name |-> STR_root, secret |-> HASH_1]),
     master_user |-> None, fail2ban |-> None]

Core2 ==
    [id |-> 2, oauth_key |-> "key2",
     oauth_expiry_token |-> U(2),
     oauth_expiry_refresh_token |-> U(2),
     oauth_expiry_refresh_token_renew |-> U(1),
     fallback_admin |-> Some([name |-> STR_root, secret |-> HASH_2]),
     master_user |-> None, fail2ban |-> None]

Cores == {Core1, Core2}

\* --------------------------------------------------------------------------
\* Operations of the token service
\* --------------------------------------------------------------------------

\* What issue_custom_token holds across its await: its arguments, the random
\* bytes it will draw and whether the build checks integer overflow.
NoArgs == [account_id |-> Zero, grant_type |-> <<>>, client_id |-> <<>>,
           expiry_in |-> Zero, seed |-> "", checks |-> FALSE]

\* `result` when the last step was not an operation of the token service: the
\* state changed since the last operation returned.
NoResult == [op |-> "none", res |-> Err(""), of |-> None, grant_type |-> <<>>,
             lookup_ok |-> TRUE, pending |-> FALSE, core |-> None,
             unix |-> Zero, checked |-> NoChecked, args |-> NoArgs]

\* A change of the clock, the directory or the configuration leaves a call in
\* flight as it is and makes the last result a thing of the past.
Elapsed == IF result.pending THEN result ELSE NoResult

\* The first stored secret of an account: of its principal in the directory,
\* or of the fallback administrator in the configuration.
FirstSecret(cfg, dir, account_id) ==
    IF account_id = U32_MAX
    THEN IF cfg.fallback_admin = None THEN None
         ELSE Some(cfg.fallback_admin[1].secret)
    ELSE LET principal == QueryById(dir, account_id)
         IN  IF principal = None \/ principal[1] = <<>> THEN None
             ELSE Some(Head(principal[1]))

\* issue_custom_token returns: password_hash got its answer (lookup_ok) from
\* the directory as it is now, and encode_access_token reads the clock now and
\* the key of the configuration `cfg` the call holds.  Issuing changes nothing
\* the service reads, so the life of one token does not depend on the others:
\* a behaviour follows the first token returned, kept with what it was issued
\* for and under to be presented later.
IssueReturn(cfg, args, lookup_ok) ==
    \E r \in {IssueCustomToken(cfg, directory, unix_now, args.checks,
                                args.account_id, args.grant_type, args.client_id,
                                args.expiry_in, args.seed, lookup_ok)} :
        LET rec == [token |-> r.val, grant_type |-> args.grant_type,
                    account_id |-> args.account_id, client_id |-> args.client_id,
                    expiry_in |-> args.expiry_in, issued_at |-> unix_now,
                    hash |-> FirstSecret(cfg, directory, args.account_id),
                    core |-> cfg.id]
        IN  /\ issued' = IF r.ok THEN {rec} ELSE issued
            /\ result' = [NoResult EXCEPT !.op = "issue", !.res = r,
                                          !.of = IF r.ok THEN Some(rec) ELSE None,
                                          !.grant_type = args.grant_type,
                                          !.lookup_ok = lookup_ok,
                                          !.core = Some(cfg),
                                          !.unix = unix_now,
                                          !.args = args]

\* A call of issue_custom_token up to the await of password_hash (lines
\* 236-249 and 181-187).  The call holds the configuration published when it
\* starts.  For the fallback administrator's account (u32::MAX) password_hash
\* does not await and the call returns at once.
IssueCustom(account_id, grant_type, client_id, expiry_in, seed, checks) ==
    LET args == [account_id |-> account_id, grant_type |-> grant_type,
                 client_id |-> client_id, expiry_in |-> expiry_in,
                 seed |-> seed, checks |-> checks]
    IN  /\ issued = {}
        /\ ~result.pending
        /\ IF account_id = U32_MAX
           THEN IssueReturn(shared_core, args, TRUE)
           ELSE /\ result' = [NoResult EXCEPT !.op = "issue", !.pending = TRUE,
                                              !.grant_type = grant_type,
                                              !.core = Some(shared_core),
                                              !.unix = unix_now,
                                              !.args = args]
                /\ UNCHANGED issued
        /\ UNCHANGED <<unix_now, ticks, shared_core, directory, oauthVars, authVars, appendVars, httpVars>>

\* The directory answers the query of the call of issue_custom_token in
\* flight (lookup_ok), or fails: the call goes on from line 249 to its return.
IssueAnswer(lookup_ok) ==
    /\ result.pending
    /\ result.op = "issue"
    /\ IssueReturn(result.core[1], result.args, lookup_ok)
    /\ UNCHANGED <<unix_now, ticks, shared_core, directory, oauthVars, authVars, appendVars, httpVars>>

\* validate_access_token is called, as operation `op`, on `token`, the token
\* of rec or a variant of it; it runs to its first suspension or its return.
\* The call holds the configuration published when it starts.
ValidateBegin(op, grant_type, rec, token) ==
    \E call \in {ValidateCall(shared_core, directory, unix_now, grant_type, token)} :
        /\ rec \in issued
        /\ ~result.pending
        /\ result' = [op |-> op, res |-> call.res,
                      of |-> Some([rec EXCEPT !.token = token]),
                      grant_type |-> grant_type, lookup_ok |-> TRUE,
                      pending |-> call.pending, core |-> Some(shared_core),
                      unix |-> unix_now, checked |-> call.checked,
                      args |-> NoArgs]
        /\ UNCHANGED <<unix_now, ticks, shared_core, directory, issued, oauthVars, authVars, appendVars, httpVars>>

\* A call of validate_access_token on a token issued earlier.
Validate(grant_type, rec) ==
    ValidateBegin("validate", grant_type, rec, rec.token)

\* A call of validate_access_token on a token issued earlier whose trailer was
\* replaced, the 32 bytes of ciphertext and tag left as they were.  The result
\* keeps the token presented.
ValidateTampered(grant_type, rec, trailer) ==
    /\ trailer # rec.token.trailer
    /\ ValidateBegin("tampered", grant_type, rec,
                     [rec.token EXCEPT !.trailer = trailer])

\* The directory answers the query of the call in flight (lookup_ok), or
\* fails: the call goes on from line 354 to its return.
ValidateAnswer(lookup_ok) ==
    /\ result.pending
    /\ result.op # "issue"
    /\ result' = [result EXCEPT
          !.pending = FALSE,
          !.lookup_ok = lookup_ok,
          !.res = ValidateDecrypt(result.core[1], directory, result.grant_type,
                                  result.of[1].token, result.checked, lookup_ok)]
    /\ UNCHANGED <<unix_now, ticks, shared_core, directory, issued, oauthVars, authVars, appendVars, httpVars>>

\* The directory changes what it stores for ACCOUNT_1 (a password change, the
\* removal or the creation of the account).
SetPrincipal(p) ==
    /\ directory[ACCOUNT_1] # p
    /\ directory' = [directory EXCEPT ![ACCOUNT_1] = p]
    /\ result' = Elapsed
    /\ UNCHANGED <<unix_now, ticks, shared_core, issued, oauthVars, authVars, appendVars, httpVars>>

\* A configuration reload publishes another snapshot.
SwapCore(c) ==
    /\ shared_core # c
    /\ shared_core' = c
    /\ result' = Elapsed
    /\ UNCHANGED <<unix_now, ticks, directory, issued, oauthVars, authVars, appendVars, httpVars>>

\* A second passes.
Tick ==
    /\ ticks < MaxTicks
    /\ ticks' = ticks + 1
    /\ unix_now' = WrappingAdd(unix_now, U(1))
    /\ result' = Elapsed
    /\ UNCHANGED <<shared_core, directory, issued, oauthVars, authVars, appendVars, httpVars>>


\* --------------------------------------------------------------------------
\* The token endpoint (handle_token_request), one step per suspension point
\* --------------------------------------------------------------------------

\* How many token requests run concurrently.
MaxReq == 2

Reqs == 1..MaxReq

\* TokenResponse::error(kind), sent with 400 Bad Request.
ErrorResponse(kind) ==
    [kind |-> "error", error |-> kind, status |-> 400,
     access_token |-> None, refresh_token |-> None, expires_in |-> None]

\* TokenResponse::Granted(OAuthResponse), sent with 200 OK.
GrantedResponse(access_token, refresh_token, expires_in) ==
    [kind |-> "granted", error |-> "", status |-> 200,
     access_token |-> Some(access_token), refresh_token |-> refresh_token,
     expires_in |-> Some(expires_in)]

\* The handler returned Err(..) through `?`: no TokenResponse is built.
Failure(detail) ==
    [kind |-> "failure", error |-> detail, status |-> 0,
     access_token |-> None, refresh_token |-> None, expires_in |-> None]

NoForm ==
    [grant_type |-> <<>>, code |-> None, client_id |-> None,
     redirect_uri |-> None, device_code |-> None, refresh_token |-> None]

\* The locals of a request that has not started.
IdleReq ==
    [pc |-> "idle", form |-> NoForm, core |-> None, oauth |-> None,
     account_id |-> Zero, client_id |-> <<>>, with_refresh |-> FALSE,
     pw |-> <<>>, access |-> None, response |-> None, seen |-> {},
     checked |-> None]

\* The snapshot a request holds for its whole life: a reader loads the shared
\* pointer once, when the request starts.
LoadCore == shared_core

\* A request reading the shared pointer anew at every access.
Snapshot_Reload(p) == shared_core

\* self.core: the configuration a request reads from.
Snapshot(p) == req[p].core[1]

\* The request ends with `response`; its locals are dropped (`checked` stays
\* as the record of what its validation read).
Respond(p, response, seen) ==
    req' = [req EXCEPT ![p].pc = "done", ![p].response = Some(response),
                       ![p].oauth = None, ![p].pw = <<>>, ![p].access = None,
                       ![p].seen = seen]

\* The code parameter the grant type names.
CodeOf(form) ==
    IF EqIgnoreAsciiCase(form.grant_type, STR_authorization_code)
    THEN form.code[1] ELSE form.device_code[1]

\* LookupStore::key_get("oauth:{code}").
KeyGetValue(kv, code) == IF code \in DOMAIN kv THEN kv[code] ELSE None

\* Lines 39-49, 89-93, 137-138, 165-167: the form is read and the grant type
\* and its parameters are looked at.  form_ok is whether
\* FormData::from_request returned a form: its error ends the request through
\* `?`, before anything is looked at.  Requests are numbered in the order they
\* arrive.
Begin(p, form, form_ok) ==
    /\ req[p].pc = "idle"
    /\ \A q \in Reqs : q < p => req[q].pc # "idle"
    /\ LET r == [req[p] EXCEPT !.form = form, !.core = Some(LoadCore)]
           answer(kind) == [r EXCEPT !.pc = "done",
                                     !.response = Some(ErrorResponse(kind))]
       IN  req' = [req EXCEPT ![p] =
             IF ~form_ok
             THEN [req[p] EXCEPT !.pc = "done", !.core = Some(LoadCore),
                                 !.response = Some(Failure("form"))]
             ELSE IF EqIgnoreAsciiCase(form.grant_type, STR_authorization_code)
             THEN IF form.code # None /\ form.client_id # None
                     /\ form.redirect_uri # None
                  THEN [r EXCEPT !.pc = "get"]
                  ELSE answer("invalid_client")
             ELSE IF EqIgnoreAsciiCase(form.grant_type, STR_device_code)
             THEN IF form.device_code # None /\ form.client_id # None
                  THEN [r EXCEPT !.pc = "get"]
                  ELSE answer("expired_token")
             ELSE IF EqIgnoreAsciiCase(form.grant_type, STR_refresh_token)
             THEN IF form.refresh_token # None
                  THEN [r EXCEPT !.pc = "validate"]
                  ELSE answer("invalid_request")
             ELSE answer("invalid_grant")]
    /\ UNCHANGED <<lookup, store_log, tokenVars, authVars, appendVars, httpVars>>

\* A call of the lookup store by request p: the operation, the code of the
\* key, whether the store answered and, for key_get, what it returned.
StoreCall(p, op, code, ok, found) ==
    [req |-> p, op |-> op, code |-> code, ok |-> ok, found |-> found]

\* The authorization_code decision without the comparison of redirect_uri.
AuthCodeDecision_NoRedirectCheck(form, found) ==
    IF found = None THEN "access_denied"
    ELSE IF form.client_id[1] # found[1].client_id THEN "invalid_client"
    ELSE IF found[1].status = "Authorized" THEN "issue"
    ELSE "invalid_grant"

\* Lines 57-85: what an authorization_code request does with the record
\* key_get returned: an error kind, or "issue" for delete the key and issue.
AuthCodeDecision(form, found) ==
    IF found = None THEN "access_denied"
    ELSE IF form.client_id[1] # found[1].client_id
            \/ form.redirect_uri[1] # found[1].params
    THEN "invalid_client"
    ELSE IF found[1].status = "Authorized" THEN "issue"
    ELSE "invalid_grant"

\* The device_code decision with a Pending record answered like no record.
DeviceDecision_PendingExpired(form, found) ==
    IF found = None THEN "expired_token"
    ELSE IF found[1].client_id # form.client_id[1] THEN "invalid_client"
    ELSE IF found[1].status = "Authorized" THEN "issue"
    ELSE "expired_token"

\* Lines 90, 96-135: the same for a device_code request.
DeviceDecision(form, found) ==
    IF found = None THEN "expired_token"
    ELSE IF found[1].client_id # form.client_id[1] THEN "invalid_client"
    ELSE IF found[1].status = "Authorized" THEN "issue"
    ELSE IF found[1].status = "Pending" THEN "authorization_pending"
    ELSE "expired_token"

\* Lines 51-62, 80-85 and 96-108, 127-135: key_get and the decision on the record.
KeyGet(p, store_ok) ==
    /\ req[p].pc = "get"
    /\ LET form == req[p].form
           found == KeyGetValue(lookup, CodeOf(form))
           authcode == EqIgnoreAsciiCase(form.grant_type, STR_authorization_code)
           decision == IF authcode THEN AuthCodeDecision(form, found)
                       ELSE DeviceDecision(form, found)
       IN  /\ store_log' = [store_log EXCEPT ![p] = Append(@,
                  StoreCall(p, "key_get", CodeOf(form), store_ok,
                            IF store_ok THEN found ELSE None))]
           /\ IF ~store_ok THEN Respond(p, Failure("store"), req[p].seen)
              ELSE IF decision = "issue"
              THEN req' = [req EXCEPT ![p].pc = "delete", ![p].oauth = found]
              ELSE Respond(p, ErrorResponse(decision), req[p].seen)
    /\ UNCHANGED <<lookup, tokenVars, authVars, appendVars, httpVars>>

\* Lines 63-68 and 109-114: key_delete; issue_token is called next with the
\* account and client of the record, and a refresh token.
KeyDelete(p, store_ok) ==
    /\ req[p].pc = "delete"
    /\ store_log' = [store_log EXCEPT ![p] = Append(@,
           StoreCall(p, "key_delete", CodeOf(req[p].form), store_ok, None))]
    /\ IF ~store_ok
       THEN /\ Respond(p, Failure("store"), req[p].seen)
            /\ UNCHANGED lookup
       ELSE /\ lookup' = [c \in DOMAIN lookup |->
                            IF c = CodeOf(req[p].form) THEN None ELSE lookup[c]]
            /\ req' = [req EXCEPT ![p].pc = "hash",
                                  ![p].account_id = req[p].oauth[1].account_id,
                                  ![p].client_id = req[p].oauth[1].client_id,
                                  ![p].with_refresh = TRUE,
                                  ![p].oauth = None]
    /\ UNCHANGED <<tokenVars, authVars, appendVars, httpVars>>

\* The renewal decided by a strict comparison.
WithRefreshToken_Strict(time_left, cfg) ==
    LtW(time_left, cfg.oauth_expiry_refresh_token_renew)

\* Line 147: the third argument of issue_token, whether a refresh token is
\* minted with the access token.
WithRefreshToken(time_left, cfg) ==
    LeqW(time_left, cfg.oauth_expiry_refresh_token_renew)

\* Lines 147-164: what the handler does with the result of
\* validate_access_token: a failure is answered with invalid_grant, a success
\* goes on to issue_token with the renewal decision.
RefreshDecision(p, r, seen) ==
    IF ~r.ok THEN Respond(p, ErrorResponse("invalid_grant"), seen)
    ELSE req' = [req EXCEPT
            ![p].pc = "hash",
            ![p].account_id = r.val.account_id,
            ![p].client_id = r.val.client_id,
            ![p].with_refresh = WithRefreshToken(r.val.time_left, Snapshot(p)),
            ![p].seen = seen]

\* Lines 139-141: validate_access_token("refresh_token", ..) is called and
\* runs to the await of the directory, or to its return.
ValidateRefresh(p) ==
    /\ req[p].pc = "validate"
    /\ \E call \in {ValidateCall(Snapshot(p), directory, unix_now,
                                  STR_refresh_token, req[p].form.refresh_token[1])} :
           IF call.pending
           THEN req' = [req EXCEPT ![p].pc = "validate_query",
                                   ![p].checked = Some(call.checked)]
           ELSE RefreshDecision(p, call.res,
                    IF call.checked = NoChecked THEN req[p].seen
                    ELSE req[p].seen \cup {Snapshot(p).id})
    /\ UNCHANGED <<lookup, store_log, tokenVars, authVars, appendVars, httpVars>>

\* The directory answers the query of validate_access_token (lookup_ok) or
\* fails; the call returns and the handler decides.
ValidateRefreshAnswer(p, lookup_ok) ==
    /\ req[p].pc = "validate_query"
    /\ \E r \in {ValidateDecrypt(Snapshot(p), directory, STR_refresh_token,
                                  req[p].form.refresh_token[1],
                                  req[p].checked[1], lookup_ok)} :
           RefreshDecision(p, r,
               IF PasswordHash(Snapshot(p), directory,
                               req[p].checked[1].account_id, lookup_ok).ok
               THEN req[p].seen \cup {Snapshot(p).id} ELSE req[p].seen)
    /\ UNCHANGED <<lookup, store_log, tokenVars, authVars, appendVars, httpVars>>

\* Line 208: issue_token awaits password_hash.
IssueHash(p, lookup_ok) ==
    /\ req[p].pc = "hash"
    /\ LET pw == PasswordHash(Snapshot(p), directory, req[p].account_id, lookup_ok)
           seen == IF req[p].account_id = U32_MAX
                   THEN req[p].seen \cup {Snapshot(p).id} ELSE req[p].seen
       IN  IF ~pw.ok THEN Respond(p, Failure(pw.err), seen)
           ELSE req' = [req EXCEPT ![p].pc = "access", ![p].pw = pw.val,
                                   ![p].seen = seen]
    /\ UNCHANGED <<lookup, store_log, tokenVars, authVars, appendVars, httpVars>>

\* Lines 211-217: the access token is encoded.
IssueAccess(p, seed, checks) ==
    /\ req[p].pc = "access"
    /\ LET r == EncodeAccessToken(Snapshot(p), unix_now, checks, STR_access_token,
                                  req[p].account_id, req[p].pw, req[p].client_id,
                                  Snapshot(p).oauth_expiry_token, seed)
           seen == req[p].seen \cup {Snapshot(p).id}
       IN  IF ~r.ok THEN Respond(p, Failure(r.err), seen)
           ELSE req' = [req EXCEPT ![p].pc = "refresh", ![p].access = Some(r.val),
                                   ![p].seen = seen]
    /\ UNCHANGED <<lookup, store_log, tokenVars, authVars, appendVars, httpVars>>

\* Lines 218-233 and 170-178: expires_in is read, the refresh token is encoded
\* when asked for, and the response is granted.
IssueRefresh(p, seed, checks) ==
    /\ req[p].pc = "refresh"
    /\ LET r == EncodeAccessToken(Snapshot(p), unix_now, checks, STR_refresh_token,
                                  req[p].account_id, req[p].pw, req[p].client_id,
                                  Snapshot(p).oauth_expiry_refresh_token, seed)
           seen == req[p].seen \cup {Snapshot(p).id}
           expires_in == Snapshot(p).oauth_expiry_token
       IN  IF req[p].with_refresh /\ ~r.ok THEN Respond(p, Failure(r.err), seen)
           ELSE Respond(p, GrantedResponse(req[p].access[1],
                                           IF req[p].with_refresh
                                           THEN Some(r.val) ELSE None,
                                           expires_in), seen)
    /\ UNCHANGED <<lookup, store_log, tokenVars, authVars, appendVars, httpVars>>

\* --------------------------------------------------------------------------
\* The authentication pipeline (Core::authenticate)
\* --------------------------------------------------------------------------

STR_admin == <<97, 100, 109, 105, 110>>
STR_master == <<109, 97, 115, 116, 101, 114>>
STR_alice == <<97, 108, 105, 99, 101>>
STR_alice_pct == <<97, 108, 105, 99, 101, 37>>
STR_alice_master == <<97, 108, 105, 99, 101, 37, 109, 97, 115, 116, 101, 114>>
STR_alice2_master ==
    <<97, 108, 105, 99, 101, 37, 37, 109, 97, 115, 116, 101, 114>>

\* str::ends_with and str::strip_suffix.
EndsWith(s, suffix) ==
    /\ Len(suffix) <= Len(s)
    /\ SubSeq(s, Len(s) - Len(suffix) + 1, Len(s)) = suffix

StripSuffix(s, suffix) ==
    IF EndsWith(s, suffix) THEN Some(SubSeq(s, 1, Len(s) - Len(suffix)))
    ELSE None

\* Option::unwrap_or.
UnwrapOr(opt, default) == IF opt = None THEN default ELSE opt[1]

\* The principals of the directory, by name, and the synthetic principal
\* Principal::fallback_admin(secret).
PRINCIPAL_alice == [id |-> ACCOUNT_1, name |-> STR_alice, fallback_admin |-> FALSE,
                    secrets |-> <<HASH_1>>]
PRINCIPAL_alice_pct == [id |-> U(2), name |-> STR_alice_pct,
                        fallback_admin |-> FALSE, secrets |-> <<HASH_1>>]

FallbackAdminPrincipal(secret) ==
    [id |-> U32_MAX, name |-> <<>>, fallback_admin |-> TRUE, secrets |-> <<secret>>]

DirectoryPrincipals == {PRINCIPAL_alice, PRINCIPAL_alice_pct}

\* Directory::query(QueryBy::Name(name)).
QueryByName(name) ==
    IF \E pr \in DirectoryPrincipals : pr.name = name
    THEN Some(CHOOSE pr \in DirectoryPrincipals : pr.name = name)
    ELSE None

\* The secrets clients send, and the hash of each as the configuration and the
\* directory store it.
SECRET_1 == "pw1"
SECRET_2 == "pw2"

HashOfSecret(secret) == IF secret = SECRET_1 THEN HASH_1 ELSE HASH_2

\* verify_secret_hash(hash, secret): whether the secret hashes to `hash`;
\* verify_ok is whether the verification itself works (the hash is of a scheme
\* the server supports).
VerifySecretHash(hash, secret, verify_ok) ==
    IF ~verify_ok THEN Err("verify_secret_hash")
    ELSE Ok(hash = HashOfSecret(secret))

\* Credentials::login.
Login(credentials) == credentials.username

\* trc errors of authenticate: the event and the context keys it carries.
AuthErr(event, ctx) == [ok |-> FALSE, principal |-> None, err |-> event, ctx |-> ctx]
AuthOk(principal) == [ok |-> TRUE, principal |-> Some(principal), err |-> "", ctx |-> {}]

IP_AND_ACCOUNT == {"remote_ip", "account_name"}

NoAttempts == <<>>

\* The attempts recorded against <<ip, login>>.
Attempts(f2b, key) == IF key \in DOMAIN f2b THEN f2b[key] ELSE 0

\* Core::is_auth_fail2banned(ip, login): the attempt is recorded, and the ban
\* trips once more attempts are recorded than the configured threshold.
RecordAttempt(f2b, key) ==
    [k \in DOMAIN f2b \cup {key} |->
        IF k = key THEN Attempts(f2b, key) + 1 ELSE f2b[k]]

IsAuthFail2Banned(f2b, key, threshold) ==
    Attempts(RecordAttempt(f2b, key), key) > threshold

RECURSIVE SumOver(_, _)
SumOver(f, keys) ==
    IF keys = {} THEN 0
    ELSE LET k == CHOOSE x \in keys : TRUE
         IN  f[k] + SumOver(f, keys \ {k})

TotalAttempts(f2b) == SumOver(f2b, DOMAIN f2b)

\* Lines 265-288 of authenticate with an error of the directory taken for
\* the absence of a principal.
DirectoryStep_ErrorForgotten(query) ==
    IF query.kind = "principal"
    THEN [done |-> TRUE, res |-> AuthOk(query.principal[1]), deferred |-> None]
    ELSE IF query.kind = "missing_totp"
    THEN [done |-> TRUE, res |-> AuthErr("MissingTotp", {}), deferred |-> None]
    ELSE [done |-> FALSE, res |-> AuthErr("", {}), deferred |-> None]

\* Lines 265-288 of authenticate with MissingTotp remembered like any other
\* error instead of returned.
DirectoryStep_TotpDeferred(query) ==
    IF query.kind = "principal"
    THEN [done |-> TRUE, res |-> AuthOk(query.principal[1]), deferred |-> None]
    ELSE IF query.kind = "none"
    THEN [done |-> FALSE, res |-> AuthErr("", {}), deferred |-> None]
    ELSE [done |-> FALSE, res |-> AuthErr("", {}),
          deferred |-> Some(IF query.kind = "missing_totp" THEN "MissingTotp"
                            ELSE "directory")]

\* Lines 265-288 of authenticate: the query by credentials.  A principal and
\* the MissingTotp error return at once; another error is remembered.
DirectoryStep(query) ==
    IF query.kind = "principal"
    THEN [done |-> TRUE, res |-> AuthOk(query.principal[1]), deferred |-> None]
    ELSE IF query.kind = "missing_totp"
    THEN [done |-> TRUE, res |-> AuthErr("MissingTotp", {}), deferred |-> None]
    ELSE IF query.kind = "none"
    THEN [done |-> FALSE, res |-> AuthErr("", {}), deferred |-> None]
    ELSE [done |-> FALSE, res |-> AuthErr("", {}), deferred |-> Some("directory")]

\* Lines 291-333 of authenticate with the fallback administrator open to
\* every kind of credentials.
FallbackStep_AnyCredentials(cfg, credentials, verify_ok, name_ok) ==
    LET fb == cfg.fallback_admin
        v == VerifySecretHash(fb[1].secret, credentials.secret, verify_ok)
    IN  IF fb # None /\ credentials.username = fb[1].name /\ v.ok /\ v.val
        THEN [done |-> TRUE, res |-> AuthOk(FallbackAdminPrincipal(fb[1].secret)),
              consulted |-> {"fallback"}]
        ELSE [done |-> FALSE, res |-> AuthErr("", {}), consulted |-> {"fallback"}]

\* Lines 291-333 of authenticate: the `match` on (fallback_admin, master_user,
\* credentials).  Only the first arm whose pattern and guard hold runs: the
\* fallback administrator's when the username equals its name, else the master
\* user's when the username ends with its suffix.  `done` is whether the
\* function returned from inside the match.
FallbackStep(cfg, credentials, verify_ok, name_ok) ==
    LET plain == credentials.kind = "Plain"
        fb == cfg.fallback_admin
        mu == cfg.master_user
        cont(consulted) == [done |-> FALSE, res |-> AuthErr("", {}),
                            consulted |-> consulted]
        ret(res, consulted) == [done |-> TRUE, res |-> res, consulted |-> consulted]
    IN  IF fb # None /\ plain /\ credentials.username = fb[1].name
        THEN LET v == VerifySecretHash(fb[1].secret, credentials.secret, verify_ok)
             IN  IF ~v.ok THEN ret(AuthErr(v.err, {}), {"fallback"})
                 ELSE IF v.val
                 THEN ret(AuthOk(FallbackAdminPrincipal(fb[1].secret)), {"fallback"})
                 ELSE cont({"fallback"})
        ELSE IF mu # None /\ plain /\ EndsWith(credentials.username, mu[1].suffix)
        THEN LET v == VerifySecretHash(mu[1].secret, credentials.secret, verify_ok)
                 stripped == StripSuffix(credentials.username, mu[1].suffix)[1]
                 username == UnwrapOr(StripSuffix(stripped, <<37>>), stripped)
                 found == QueryByName(username)
             IN  IF ~v.ok THEN ret(AuthErr(v.err, {}), {"master"})
                 ELSE IF ~v.val THEN cont({"master"})
                 ELSE IF ~name_ok
                 THEN ret(AuthErr("name_query", {}), {"master", "name_query"})
                 ELSE IF found # None
                 THEN ret(AuthOk(found[1]), {"master", "name_query"})
                 ELSE cont({"master", "name_query"})
        ELSE cont({})

\* Lines 337-353 of authenticate without the fail-to-ban branch.
FailureStep_NoBanCheck(cfg, f2b, key, f2b_ok) ==
    [res |-> AuthErr("Failed", IP_AND_ACCOUNT), consulted |-> {}, f2b |-> f2b]

\* Lines 337-353 of authenticate: no principal and no remembered error.  With
\* fail-to-ban configured is_auth_fail2banned is asked (it records the
\* attempt); f2b_ok is whether that call works.
FailureStep(cfg, f2b, key, f2b_ok) ==
    IF cfg.fail2ban # None
    THEN IF ~f2b_ok
         THEN [res |-> AuthErr("store", {}), consulted |-> {"fail2ban"},
               f2b |-> f2b]
         ELSE [res |-> AuthErr(IF IsAuthFail2Banned(f2b, key, cfg.fail2ban[1])
                               THEN "AuthenticationBan" ELSE "Failed",
                               IP_AND_ACCOUNT),
               consulted |-> {"fail2ban"},
               f2b |-> RecordAttempt(f2b, key)]
    ELSE [res |-> AuthErr("Failed", IP_AND_ACCOUNT), consulted |-> {}, f2b |-> f2b]

\* The answers of the directory to a query by credentials.
QueryAnswer(kind, principal) == [kind |-> kind, principal |-> principal]

QueryAnswers ==
    {QueryAnswer("principal", Some(PRINCIPAL_alice)), QueryAnswer("none", None),
     QueryAnswer("missing_totp", None), QueryAnswer("error", None)}

\* The calls of authenticate a behaviour has in flight at once.
AuthCalls == {1, 2}

\* A call of authenticate that has not started: its inputs, the answers its
\* awaited calls got, what it consulted and what it returned.  `before` is the
\* fail-to-ban state is_auth_fail2banned found.
NoAuth ==
    [pc |-> "idle", called |-> FALSE,
     credentials |-> [kind |-> "", username |-> <<>>, secret |-> ""],
     remote_ip |-> "", query |-> QueryAnswer("pending", None), verify_ok |-> TRUE,
     name_ok |-> TRUE, f2b_ok |-> TRUE, deferred |-> None, before |-> NoAttempts,
     res |-> AuthErr("", {}), consulted |-> {}]

\* The failed attempts a behaviour records, over all keys.
MaxAttempts == 2

\* The arm of the match of lines 291-333 that runs for the credentials: what
\* the match consults up to its first await.
MatchArm(cfg, credentials) == FallbackStep(cfg, credentials, FALSE, TRUE).consulted

\* The call returns `res`.
Return(call, res, consulted) ==
    [call EXCEPT !.pc = "done", !.res = res, !.consulted = consulted]

\* Lines 335-353 up to the await of is_auth_fail2banned: the remembered error
\* is returned; with fail-to-ban configured the call awaits
\* is_auth_fail2banned, else it returns AuthFailed.
AfterMatch(cfg, call, consulted) ==
    IF call.deferred # None
    THEN Return(call, AuthErr(call.deferred[1], {}), consulted)
    ELSE IF cfg.fail2ban # None
    THEN [call EXCEPT !.pc = "fail2ban", !.consulted = consulted]
    ELSE Return(call, FailureStep(cfg, NoAttempts, <<>>, TRUE).res, consulted)

\* Lines 256-267: authenticate is called and awaits the query by credentials.
Authenticate(c, credentials, remote_ip) ==
    /\ auth[c].pc \in {"idle", "done"}
    /\ auth' = [auth EXCEPT ![c] =
                   [NoAuth EXCEPT !.pc = "query", !.called = TRUE,
                                  !.credentials = credentials,
                                  !.remote_ip = remote_ip]]
    /\ UNCHANGED <<fail2ban, tokenVars, oauthVars, appendVars, httpVars>>

\* Lines 265-303: the directory answers the query by credentials; the call
\* returns, or goes on to the match and awaits verify_secret_hash in the arm
\* that runs, or goes on past the match.
QueryAnswered(c, query) ==
    LET call == [auth[c] EXCEPT !.query = query]
        ds == DirectoryStep(query)
        went == [call EXCEPT !.deferred = ds.deferred]
    IN  /\ auth[c].pc = "query"
        /\ auth' = [auth EXCEPT ![c] =
              IF ds.done THEN Return(call, ds.res, {})
              ELSE IF MatchArm(shared_core, call.credentials) # {}
              THEN [went EXCEPT !.pc = "verify"]
              ELSE AfterMatch(shared_core, went, {})]
        /\ UNCHANGED <<fail2ban, tokenVars, oauthVars, appendVars, httpVars>>

\* Lines 297-318: verify_secret_hash answers (verify_ok) or fails; the
\* master user's arm goes on to await the query by name.
VerifyAnswered(c, verify_ok) ==
    LET call == [auth[c] EXCEPT !.verify_ok = verify_ok]
        fs == FallbackStep(shared_core, call.credentials, verify_ok, TRUE)
        queries == "name_query" \in fs.consulted
    IN  /\ auth[c].pc = "verify"
        /\ auth' = [auth EXCEPT ![c] =
              IF queries
              THEN [call EXCEPT !.pc = "name", !.consulted = fs.consulted \ {"name_query"}]
              ELSE IF fs.done THEN Return(call, fs.res, fs.consulted)
              ELSE AfterMatch(shared_core, call, fs.consulted)]
        /\ UNCHANGED <<fail2ban, tokenVars, oauthVars, appendVars, httpVars>>

\* Lines 316-331: the directory answers the query by name (name_ok) or fails.
NameAnswered(c, name_ok) ==
    LET call == [auth[c] EXCEPT !.name_ok = name_ok]
        fs == FallbackStep(shared_core, call.credentials, TRUE, name_ok)
    IN  /\ auth[c].pc = "name"
        /\ auth' = [auth EXCEPT ![c] =
              IF fs.done THEN Return(call, fs.res, fs.consulted)
              ELSE AfterMatch(shared_core, call, fs.consulted)]
        /\ UNCHANGED <<fail2ban, tokenVars, oauthVars, appendVars, httpVars>>

\* Lines 337-348: is_auth_fail2banned answers (f2b_ok) or fails.
Fail2BanAnswered(c, f2b_ok) ==
    LET call == [auth[c] EXCEPT !.f2b_ok = f2b_ok, !.before = fail2ban]
        key == <<call.remote_ip, Login(call.credentials)>>
        last == FailureStep(shared_core, fail2ban, key, f2b_ok)
    IN  /\ auth[c].pc = "fail2ban"
        /\ TotalAttempts(last.f2b) <= MaxAttempts
        /\ fail2ban' = last.f2b
        /\ auth' = [auth EXCEPT ![c] =
                       Return(call, last.res, call.consulted \cup last.consulted)]
        /\ UNCHANGED <<tokenVars, oauthVars, appendVars, httpVars>>

\* --------------------------------------------------------------------------
\* IMAP APPEND (handle_append and append_messages), one step per suspension point
\* --------------------------------------------------------------------------

\* StatusResponse and its builders.
NoCode == [name |-> "", uid_validity |-> 0, uids |-> <<>>]
Code(name) == [name |-> name, uid_validity |-> 0, uids |-> <<>>]
AppendUid(uid_validity, uids) ==
    [name |-> "APPENDUID", uid_validity |-> uid_validity, uids |-> uids]

StatusResponse(kind, message) ==
    [tag |-> "", kind |-> kind, code |-> NoCode, message |-> message]

StatusNo(message) == StatusResponse("NO", message)
Completed == StatusResponse("OK", "APPEND completed")
NoopCompleted == StatusResponse("OK", "NOOP completed")
ParseError == [StatusResponse("BAD", "Failed to parse") EXCEPT !.tag = "a1"]

WithTag(response, tag) == [response EXCEPT !.tag = tag]

\* StatusResponse::with_code: the response carries one code, the last one set.
WithCode(response, code) == [response EXCEPT !.code = code]

DatabaseFailure == WithCode(StatusNo("Database failure."), Code("CONTACTADMIN"))

\* The mailboxes of the session, by name (get_mailbox_by_name).
MAILBOX_inbox == [account_id |-> 1, mailbox_id |-> Some(1)]
MAILBOX_shared == [account_id |-> 2, mailbox_id |-> Some(2)]
MAILBOX_virtual == [account_id |-> 1, mailbox_id |-> None]

GetMailboxByName(name) ==
    CASE name = "INBOX" -> Some(MAILBOX_inbox)
      [] name = "Shared" -> Some(MAILBOX_shared)
      [] name = "Virtual" -> Some(MAILBOX_virtual)
      [] OTHER -> None

UID_VALIDITY == [m \in {MAILBOX_inbox, MAILBOX_shared} |->
                    IF m = MAILBOX_inbox THEN 11 ELSE 22]

Tags == {"a1", "a2"}

IdleTask ==
    [pc |-> "idle",
     arguments |-> [tag |-> "", mailbox_name |-> "", messages |-> 0],
     selected_mailbox |-> None, mailbox |-> MAILBOX_inbox, next |-> 1,
     response |-> Completed, created_ids |-> <<>>, last_change_id |-> None,
     ret |-> Completed, acl |-> "unchecked"]

\* handle_append between two commands.
IdleHandler ==
    [pc |-> "idle", arguments |-> IdleTask.arguments, selected |-> None,
     response |-> Completed]

NoSession ==
    /\ imap_in = <<>>
    /\ handler = IdleHandler
    /\ tasks = [t \in Tags |-> IdleTask]
    /\ written = <<>>
    /\ broadcasts = <<>>
    /\ ingested = <<>>
    /\ store = [change_id |-> 0, next_doc |-> 1, next_uid |-> 1, docs |-> <<>>]

\* id_to_imap of a mailbox as the store has it now: document id -> uid.
IdToImap(mailbox) ==
    [d \in {x \in DOMAIN store.docs : store.docs[x].mailbox = mailbox} |->
        store.docs[d].uid]

\* The uids collected in the reverse of the order of created_ids.
RECURSIVE FilterMapUids_Reversed(_, _)
FilterMapUids_Reversed(created_ids, id_to_imap) ==
    IF created_ids = <<>> THEN <<>>
    ELSE LET rest == FilterMapUids_Reversed(Tail(created_ids), id_to_imap)
         IN  IF Head(created_ids) \in DOMAIN id_to_imap
             THEN rest \o <<id_to_imap[Head(created_ids)]>>
             ELSE rest

\* synchronize_messages(selected_mailbox) followed by the read of
\* selected_mailbox.state under its lock: the map of the selected mailbox, up
\* to date with the store.
SynchronizeMessages(selected_mailbox) == IdToImap(selected_mailbox)

\* fetch_messages(mailbox): the map of the mailbox read fresh from the store.
FetchMessages(mailbox) == IdToImap(mailbox)

\* filter_map(|id| id_to_imap.get(&id)).map(|id| id.uid).collect()
RECURSIVE FilterMapUids(_, _)
FilterMapUids(created_ids, id_to_imap) ==
    IF created_ids = <<>> THEN <<>>
    ELSE LET rest == FilterMapUids(Tail(created_ids), id_to_imap)
         IN  IF Head(created_ids) \in DOMAIN id_to_imap
             THEN <<id_to_imap[Head(created_ids)]>> \o rest
             ELSE rest

\* Line 150 keeping the first change id instead of the last.
LastChangeId_First(last_change_id, change_id) ==
    IF last_change_id = None THEN Some(change_id) ELSE last_change_id

\* Line 150: last_change_id = Some(email.change_id).
LastChangeId(last_change_id, change_id) == Some(change_id)

\* StateChange::new(account_id).with_change(Email, ..).with_change(Mailbox, ..)
\* .with_change(Thread, ..); `task` records the run that emitted it.
StateChange(task, account_id, change_id) ==
    [task |-> task, account_id |-> account_id,
     Email |-> change_id, Mailbox |-> change_id, Thread |-> change_id]

\* Lines 153-164: the response for an ingest error.
IngestErrorResponse(err) ==
    CASE err = "Temporary" -> DatabaseFailure
      [] err = "OverQuota" -> WithCode(StatusNo("Disk quota exceeded."), Code("OVERQUOTA"))
      [] OTHER -> StatusNo("reason")

IngestOutcomes == {"Ok", "Temporary", "OverQuota", "Permanent"}

\* The read loop takes a command other than APPEND and answers it itself.
HandleNoop ==
    /\ handler.pc = "idle"
    /\ imap_in # <<>>
    /\ Head(imap_in).kind = "NOOP"
    /\ imap_in' = Tail(imap_in)
    /\ written' = Append(written, WithTag(NoopCompleted, Head(imap_in).tag))
    /\ UNCHANGED <<handler, tasks, broadcasts, ingested, store>>
    /\ UNCHANGED <<tokenVars, oauthVars, authVars, httpVars>>

\* Lines 38-44 and 94: the read loop calls handle_append with the next
\* command, and awaits it; the request is parsed: a parse error goes to
\* write_bytes, else session_mailbox_state is taken and synchronize_mailboxes
\* awaited.  `selected` is the session's selected mailbox.
HandleAppend ==
    /\ handler.pc = "idle"
    /\ imap_in # <<>>
    /\ Head(imap_in).kind = "APPEND"
    /\ imap_in' = Tail(imap_in)
    /\ handler' =
          IF ~Head(imap_in).parse_ok
          THEN [IdleHandler EXCEPT !.pc = "write", !.response = ParseError]
          ELSE [IdleHandler EXCEPT !.pc = "sync",
                                   !.arguments = Head(imap_in).arguments,
                                   !.selected = Head(imap_in).selected]
    /\ UNCHANGED <<tasks, written, broadcasts, ingested, store>>
    /\ UNCHANGED <<tokenVars, oauthVars, authVars, httpVars>>

\* Lines 44-91: synchronize_mailboxes returns; on its error, for a mailbox
\* without mailbox_id and for an unknown name the response goes to
\* write_bytes; else the task is spawned and handle_append returns.
SynchronizeMailboxes(sync_ok) ==
    /\ handler.pc = "sync"
    /\ LET arguments == handler.arguments
           found == GetMailboxByName(arguments.mailbox_name)
           answer(response) ==
               /\ handler' = [handler EXCEPT !.pc = "write", !.response = response]
               /\ UNCHANGED tasks
       IN  IF ~sync_ok THEN answer(WithTag(DatabaseFailure, arguments.tag))
           ELSE IF found = None
           THEN answer(WithCode(WithTag(StatusNo("Mailbox does not exist."),
                                        arguments.tag), Code("TRYCREATE")))
           ELSE IF found[1].mailbox_id = None
           THEN answer(WithCode(WithTag(
                    StatusNo("Appending messages to this mailbox is not allowed."),
                    arguments.tag), Code("CANNOT")))
           ELSE /\ tasks' = [tasks EXCEPT ![arguments.tag] =
                       [IdleTask EXCEPT !.pc = "acl", !.arguments = arguments,
                                        !.selected_mailbox = handler.selected,
                                        !.mailbox = found[1]]]
                /\ handler' = IdleHandler
    /\ UNCHANGED <<imap_in, written, broadcasts, ingested, store>>
    /\ UNCHANGED <<tokenVars, oauthVars, authVars, httpVars>>

\* Lines 45-47, 56-65, 68-75, 94: write_bytes of the handler returns, and
\* handle_append with it.
HandlerWrite ==
    /\ handler.pc = "write"
    /\ written' = Append(written, handler.response)
    /\ handler' = IdleHandler
    /\ UNCHANGED <<imap_in, tasks, broadcasts, ingested, store>>
    /\ UNCHANGED <<tokenVars, oauthVars, authVars, httpVars>>

\* append_messages going on to the quota whatever check_mailbox_acl answers.
AclDecision_DenyIgnored(task, outcome) ==
    [task EXCEPT !.pc = "quota", !.acl = outcome]

\* append_messages ending without a response when check_mailbox_acl denies.
AclDecision_DenySilent(task, outcome) ==
    CASE outcome = "error" ->
           [task EXCEPT !.pc = "write", !.acl = outcome,
                        !.ret = WithTag(DatabaseFailure, task.arguments.tag)]
      [] outcome = "deny" -> [task EXCEPT !.pc = "done", !.acl = outcome]
      [] OTHER -> [task EXCEPT !.pc = "quota", !.acl = outcome]

\* Lines 110-120: what append_messages does with the answer of
\* check_mailbox_acl: an error or a denial ends it with its tagged response.
\* `acl` keeps the answer.
AclDecision(task, outcome) ==
    CASE outcome = "error" ->
           [task EXCEPT !.pc = "write", !.acl = outcome,
                        !.ret = WithTag(DatabaseFailure, task.arguments.tag)]
      [] outcome = "deny" ->
           [task EXCEPT !.pc = "write", !.acl = outcome,
                        !.ret = WithCode(WithTag(StatusNo(
                            "You do not have the required permissions to append messages to this mailbox."),
                            task.arguments.tag), Code("NOPERM"))]
      [] OTHER -> [task EXCEPT !.pc = "quota", !.acl = outcome]

\* Lines 107-120: check_mailbox_acl(account_id, mailbox_id, AddItems).
CheckAcl(t, outcome) ==
    /\ tasks[t].pc = "acl"
    /\ tasks' = [tasks EXCEPT ![t] = AclDecision(tasks[t], outcome)]
    /\ UNCHANGED <<imap_in, written, broadcasts, ingested, store>>
    /\ UNCHANGED <<handler, tokenVars, oauthVars, authVars, httpVars>>

\* Lines 123-132: get_access_token, then the locals of the loop.
GetQuota(t, ok) ==
    /\ tasks[t].pc = "quota"
    /\ tasks' = [tasks EXCEPT ![t] =
          IF ~ok
          THEN [@ EXCEPT !.pc = "write", !.ret = WithTag(DatabaseFailure, tasks[t].arguments.tag)]
          ELSE [@ EXCEPT !.pc = "ingest", !.response = Completed,
                         !.created_ids = <<>>, !.last_change_id = None, !.next = 1]]
    /\ UNCHANGED <<imap_in, written, broadcasts, ingested, store>>
    /\ UNCHANGED <<handler, tokenVars, oauthVars, authVars, httpVars>>

\* The loop going on to the next message after an ingest error.
IngestStep_NoBreak(task, outcome, document_id, change_id) ==
    LET last == task.next = task.arguments.messages
    IN  IF outcome = "Ok"
        THEN [task EXCEPT !.created_ids = Append(@, document_id),
                          !.last_change_id = LastChangeId(@, change_id),
                          !.next = @ + 1,
                          !.pc = IF last THEN "broadcast" ELSE "ingest"]
        ELSE [task EXCEPT !.response = IngestErrorResponse(outcome),
                          !.next = @ + 1,
                          !.pc = IF last THEN "broadcast" ELSE "ingest"]

\* Lines 147-167: what the loop does with the result of email_ingest: Ok
\* pushes the document id, keeps the change id and goes on to the next message
\* (to the broadcast after the last one); Err sets the response and breaks.
IngestStep(task, outcome, document_id, change_id) ==
    LET last == task.next = task.arguments.messages
    IN  IF outcome = "Ok"
        THEN [task EXCEPT !.created_ids = Append(@, document_id),
                          !.last_change_id = LastChangeId(@, change_id),
                          !.next = @ + 1,
                          !.pc = IF last THEN "broadcast" ELSE "ingest"]
        ELSE [task EXCEPT !.response = IngestErrorResponse(outcome),
                          !.pc = "broadcast"]

\* Lines 133-168: one iteration of the loop, the call of email_ingest for the
\* next message.  A successful ingest commits the message: it takes the next
\* document id, uid and change id of the store.
Ingest(t, outcome) ==
    LET task == tasks[t]
        document_id == store.next_doc
        change_id == store.change_id + 1
    IN  /\ task.pc = "ingest"
        /\ ingested' = Append(ingested,
                [task |-> t, index |-> task.next, outcome |-> outcome,
                 account_id |-> task.mailbox.account_id,
                 change_id |-> IF outcome = "Ok" THEN change_id ELSE 0,
                 document_id |-> IF outcome = "Ok" THEN document_id ELSE 0])
        /\ store' =
              IF outcome = "Ok"
              THEN [change_id |-> change_id,
                    next_doc |-> document_id + 1,
                    next_uid |-> store.next_uid + 1,
                    docs |-> [d \in DOMAIN store.docs \cup {document_id} |->
                                IF d = document_id
                                THEN [mailbox |-> task.mailbox,
                                      uid |-> store.next_uid]
                                ELSE store.docs[d]]]
              ELSE store
        /\ tasks' = [tasks EXCEPT ![t] =
                        IngestStep(task, outcome, document_id, change_id)]
        /\ UNCHANGED <<imap_in, written, broadcasts>>
        /\ UNCHANGED <<handler, tokenVars, oauthVars, authVars, httpVars>>

\* Lines 171-180: broadcast_state_change when a change id was collected.
Broadcast(t) ==
    LET task == tasks[t]
    IN  /\ task.pc = "broadcast"
        /\ broadcasts' =
              IF task.last_change_id # None
              THEN Append(broadcasts, StateChange(t, task.mailbox.account_id,
                                                  task.last_change_id[1]))
              ELSE broadcasts
        /\ tasks' = [tasks EXCEPT ![t] =
              IF task.created_ids # <<>> THEN [@ EXCEPT !.pc = "uids"]
              ELSE [@ EXCEPT !.pc = "write",
                             !.ret = WithTag(task.response, task.arguments.tag)]]
        /\ UNCHANGED <<imap_in, written, ingested, store>>
        /\ UNCHANGED <<handler, tokenVars, oauthVars, authVars, httpVars>>

\* Lines 182-217: synchronize_messages on the selected mailbox when it is the
\* target, fetch_messages otherwise; then the APPENDUID code and the tag.
AssembleUids(t, ok) ==
    LET task == tasks[t]
        id_to_imap ==
            IF task.selected_mailbox # None /\ task.selected_mailbox[1] = task.mailbox
            THEN SynchronizeMessages(task.selected_mailbox[1])
            ELSE FetchMessages(task.mailbox)
        uids == FilterMapUids(task.created_ids, id_to_imap)
    IN  /\ task.pc = "uids"
        /\ tasks' = [tasks EXCEPT ![t] =
              IF ~ok
              THEN [@ EXCEPT !.pc = "write",
                             !.ret = WithTag(DatabaseFailure, task.arguments.tag)]
              ELSE [@ EXCEPT !.pc = "write",
                             !.ret = WithTag(
                                 WithCode(task.response,
                                          AppendUid(UID_VALIDITY[task.mailbox], uids)),
                                 task.arguments.tag)]]
        /\ UNCHANGED <<imap_in, written, broadcasts, ingested, store>>
        /\ UNCHANGED <<handler, tokenVars, oauthVars, authVars, httpVars>>

\* Lines 80-90: the task writes what append_messages returned.
WriteResponse(t) ==
    /\ tasks[t].pc = "write"
    /\ written' = Append(written, tasks[t].ret)
    /\ tasks' = [tasks EXCEPT ![t].pc = "done"]
    /\ UNCHANGED <<imap_in, broadcasts, ingested, store>>
    /\ UNCHANGED <<handler, tokenVars, oauthVars, authVars, httpVars>>

\* Another session expunges a message.
Expunge(d) ==
    /\ d \in DOMAIN store.docs
    /\ store' = [store EXCEPT !.docs =
                    [x \in DOMAIN store.docs \ {d} |-> store.docs[x]]]
    /\ UNCHANGED <<imap_in, tasks, written, broadcasts, ingested>>
    /\ UNCHANGED <<handler, tokenVars, oauthVars, authVars, httpVars>>

\* --------------------------------------------------------------------------
\* HTTP response size limiter (lib.rs, HttpLimitResponse)
\* --------------------------------------------------------------------------

\* The widths of usize the program is built for.
PointerWidths == {32, 64}

\* `len as usize`: the u64 keeps its low bits.
AsUsize(len, usize_bits) ==
    IF usize_bits = 32 THEN <<len[1], len[2], 0, 0>> ELSE len

\* Lines 429-432: self.content_length().map_or(false, |len| len as usize > limit).
ContentLengthExceeds(content_length, limit, usize_bits) ==
    /\ content_length # None
    /\ LtW(U(limit), AsUsize(content_length[1], usize_bits))

\* The test of the chunk made on the chunk alone.
ChunkExceeds_ChunkOnly(bytes, chunk, limit) == Len(chunk) > limit

\* Line 441: bytes.len() + chunk.len() > limit.
ChunkExceeds(bytes, chunk, limit) == Len(bytes) + Len(chunk) > limit

\* An item of the body stream: a chunk of bytes, or a transport error.
ChunkItem(chunk) == [ok |-> TRUE, chunk |-> chunk]
TransportError == [ok |-> FALSE, chunk |-> <<>>]

\* No call of bytes_with_limit.
IdleHttp ==
    [pc |-> "idle", usize_bits |-> 64, limit |-> 0, content_length |-> None,
     stream |-> <<>>, body |-> <<>>, bytes |-> <<>>, polled |-> 0,
     res |-> Err("")]

\* Lines 428-438: the content length is looked at; the buffer and the stream
\* are made when it does not exceed the limit.
CheckContentLength ==
    /\ http.pc = "check"
    /\ http' = IF ContentLengthExceeds(http.content_length, http.limit,
                                        http.usize_bits)
               THEN [http EXCEPT !.pc = "done", !.res = Ok(None)]
               ELSE [http EXCEPT !.pc = "stream", !.bytes = <<>>]
    /\ UNCHANGED <<tokenVars, oauthVars, authVars, appendVars>>

\* Lines 440-448: stream.next().await and the body of the loop for what it
\* returned; the end of the stream returns the buffer.
NextChunk ==
    /\ http.pc = "stream"
    /\ http' =
          IF http.stream = <<>>
          THEN [http EXCEPT !.pc = "done", !.polled = @ + 1,
                            !.res = Ok(Some(http.bytes))]
          ELSE LET item == Head(http.stream)
                   taken == [http EXCEPT !.stream = Tail(@), !.polled = @ + 1]
               IN  IF ~item.ok
                   THEN [taken EXCEPT !.pc = "done", !.res = Err("transport")]
                   ELSE IF ChunkExceeds(http.bytes, item.chunk, http.limit)
                   THEN [taken EXCEPT !.pc = "done", !.res = Ok(None)]
                   ELSE [taken EXCEPT !.bytes = @ \o item.chunk]
    /\ UNCHANGED <<tokenVars, oauthVars, authVars, appendVars>>

\* --------------------------------------------------------------------------
\* Specifications
\* --------------------------------------------------------------------------

\* The codes a request names: CODE_1 is the one the store may hold.
CODE_1 == "c1"
CODE_2 == "c2"
Codes == {CODE_1, CODE_2}

\* Forms of grant type refresh_token: without the parameter, or presenting a
\* token issued earlier; the grant type is compared ignoring case.
RefreshForms ==
    {[NoForm EXCEPT !.grant_type = STR_refresh_token]}
    \cup {[NoForm EXCEPT !.grant_type = g, !.refresh_token = Some(rec.token)] :
            g \in {STR_refresh_token, STR_Refresh_Token}, rec \in issued}

\* The clock starts one second before Jan 1, 2000.
InitToken ==
    /\ unix_now = U(EPOCH_2000 - 1)
    /\ ticks = 0
    /\ shared_core = Core1
    /\ directory = [a \in {ACCOUNT_1} |-> Some(<<HASH_1>>)]
    /\ issued = {}
    /\ result = NoResult
    /\ lookup = [c \in Codes |-> None]
    /\ req = [p \in Reqs |-> IdleReq]
    /\ store_log = [p \in Reqs |-> <<>>]
    /\ fail2ban = NoAttempts
    /\ auth = [c \in AuthCalls |-> NoAuth]
    /\ NoSession
    /\ http = IdleHttp

NextToken ==
    \/ \E a \in AccountIds, g \in GrantTypes, c \in ClientIds, e \in ExpiryIns,
          s \in Seeds, checks \in BOOLEAN :
          IssueCustom(a, g, c, e, s, checks)
    \/ \E ok \in BOOLEAN : IssueAnswer(ok)
    \/ \E g \in GrantTypes, rec \in issued : Validate(g, rec)
    \/ \E ok \in BOOLEAN : ValidateAnswer(ok)
    \/ \E p \in PrincipalStates : SetPrincipal(p)
    \/ \E c \in Cores : SwapCore(c)
    \/ Tick

\* The token service under every issue, validation, password change,
\* configuration reload and passing of time.
SpecToken == InitToken /\ [][NextToken]_vars

\* Lifetimes of the tokens presented to the refresh flow.
RefreshExpiryIns == {U(1), U(2), U(3)}

NextRefresh ==
    \/ \E g \in GrantTypes, e \in RefreshExpiryIns, checks \in BOOLEAN :
          IssueCustom(ACCOUNT_1, g, CLIENT_a, e, "r1", checks)
    \/ IssueAnswer(TRUE)
    \/ \E g \in GrantTypes, rec \in issued : Validate(g, rec)
    \/ \E ok \in BOOLEAN : ValidateAnswer(ok)
    \/ \E p \in {None, Some(<<HASH_1>>), Some(<<HASH_2>>)} : SetPrincipal(p)
    \/ Tick
    \/ \E f \in RefreshForms, form_ok \in BOOLEAN : Begin(1, f, form_ok)
    \/ ValidateRefresh(1)
    \/ \E ok \in BOOLEAN : ValidateRefreshAnswer(1, ok)
    \/ \E ok \in BOOLEAN : IssueHash(1, ok)
    \/ \E s \in Seeds, checks \in BOOLEAN : IssueAccess(1, s, checks)
    \/ \E s \in Seeds, checks \in BOOLEAN : IssueRefresh(1, s, checks)

\* One request of grant type refresh_token against the token service.
SpecRefresh == InitToken /\ [][NextRefresh]_vars

\* An account id no principal of the directory has.
ACCOUNT_GONE == U(7)

URI_1 == "https://a/cb"
URI_2 == "https://b/cb"

OAuthStatuses == {"Pending", "Authorized", "TokenIssued"}

\* The forms sent to the token endpoint for a code: every combination of a
\* known or unknown code with a matching or different client id and redirect
\* URI, each required parameter missing in turn, grant type refresh_token
\* without its parameter, and a grant type the endpoint does not know.
AuthCodeForm(code, client_id, redirect_uri) ==
    [NoForm EXCEPT !.grant_type = STR_authorization_code, !.code = code,
                   !.client_id = client_id, !.redirect_uri = redirect_uri]

DeviceForm(device_code, client_id) ==
    [NoForm EXCEPT !.grant_type = STR_device_code, !.device_code = device_code,
                   !.client_id = client_id]

CodeForms ==
    {AuthCodeForm(Some(CODE_1), Some(c), Some(u)) :
        c \in {CLIENT_a, CLIENT_e_acute}, u \in {URI_1, URI_2}}
    \cup {AuthCodeForm(Some(CODE_2), Some(CLIENT_a), Some(URI_1)),
          AuthCodeForm(None, Some(CLIENT_a), Some(URI_1)),
          AuthCodeForm(Some(CODE_1), None, Some(URI_1)),
          AuthCodeForm(Some(CODE_1), Some(CLIENT_a), None)}
    \cup {DeviceForm(Some(CODE_1), Some(c)) : c \in {CLIENT_a, CLIENT_e_acute}}
    \cup {DeviceForm(Some(CODE_2), Some(CLIENT_a)),
          DeviceForm(None, Some(CLIENT_a)),
          DeviceForm(Some(CODE_1), None)}
    \cup {[NoForm EXCEPT !.grant_type = STR_refresh_token],
          [NoForm EXCEPT !.grant_type = STR_password]}

\* The forms concurrent requests send: the code with the right and with a
\* wrong redirect URI, the same code as a device code, and a form that lacks
\* its parameter.
ConcurrentForms ==
    {AuthCodeForm(Some(CODE_1), Some(CLIENT_a), Some(URI_1)),
     AuthCodeForm(Some(CODE_1), Some(CLIENT_a), Some(URI_2)),
     DeviceForm(Some(CODE_1), Some(CLIENT_a)),
     [NoForm EXCEPT !.grant_type = STR_refresh_token]}

\* The store holds one code record, of the given accounts and any status,
\* issued to client "a" with redirect URI URI_1; the clock reads 5 s past
\* Jan 1, 2000.
InitCode(accounts) ==
    /\ unix_now = U(EPOCH_2000 + 5)
    /\ ticks = 0
    /\ shared_core = Core1
    /\ directory = [a \in {ACCOUNT_1} |-> Some(<<HASH_1>>)]
    /\ issued = {}
    /\ result = NoResult
    /\ \E a \in accounts, st \in OAuthStatuses :
          lookup = [c \in Codes |->
                      IF c = CODE_1
                      THEN Some([client_id |-> CLIENT_a, params |-> URI_1,
                                 account_id |-> a, status |-> st])
                      ELSE None]
    /\ req = [p \in Reqs |-> IdleReq]
    /\ store_log = [p \in Reqs |-> <<>>]
    /\ fail2ban = NoAttempts
    /\ auth = [c \in AuthCalls |-> NoAuth]
    /\ NoSession
    /\ http = IdleHttp

InitOAuth == InitCode({ACCOUNT_1, ACCOUNT_GONE})

NextOAuth ==
    \/ \E p \in Reqs, f \in ConcurrentForms, form_ok \in BOOLEAN : Begin(p, f, form_ok)
    \/ \E p \in Reqs, ok \in BOOLEAN : KeyGet(p, ok)
    \/ \E p \in Reqs, ok \in BOOLEAN : KeyDelete(p, ok)
    \/ \E p \in Reqs, ok \in BOOLEAN : IssueHash(p, ok)
    \/ \E p \in Reqs, checks \in BOOLEAN : IssueAccess(p, SEED_1, checks)
    \/ \E p \in Reqs, checks \in BOOLEAN : IssueRefresh(p, SEED_1, checks)
    \/ \E c \in Cores : SwapCore(c)

\* Concurrent token requests for a code, under configuration reloads.
SpecOAuth == InitOAuth /\ [][NextOAuth]_vars

InitOneRequest == InitCode(AccountIds \cup {ACCOUNT_GONE})

NextOneRequest ==
    \/ \E f \in CodeForms, form_ok \in BOOLEAN : Begin(1, f, form_ok)
    \/ \E ok \in BOOLEAN : KeyGet(1, ok)
    \/ \E ok \in BOOLEAN : KeyDelete(1, ok)
    \/ \E ok \in BOOLEAN : IssueHash(1, ok)
    \/ \E s \in Seeds, checks \in BOOLEAN : IssueAccess(1, s, checks)
    \/ \E s \in Seeds, checks \in BOOLEAN : IssueRefresh(1, s, checks)

\* One token request for a code, of every form, on every record.
SpecOneRequest == InitOneRequest /\ [][NextOneRequest]_vars

\* Authentication: one configuration per behaviour, any sequence of calls.
MASTER_1 == [suffix |-> STR_master, secret |-> HASH_2]

FallbackAdmins ==
    {None, Some([name |-> STR_admin, secret |-> HASH_1]),
     Some([name |-> STR_alice_master, secret |-> HASH_1])}

AuthCores ==
    {[Core1 EXCEPT !.fallback_admin = fb, !.master_user = mu, !.fail2ban = th] :
        fb \in FallbackAdmins, mu \in {None, Some(MASTER_1)},
        th \in {None, Some(1)}}

Usernames == {STR_admin, STR_alice_master, STR_alice2_master}

CredentialsSet ==
    {[kind |-> "Plain", username |-> u, secret |-> x] :
        u \in Usernames, x \in {SECRET_1, SECRET_2}}
    \cup {[kind |-> "XOauth2", username |-> u, secret |-> SECRET_1] : u \in Usernames}
    \cup {[kind |-> "OAuthBearer", username |-> u, secret |-> ""] : u \in Usernames}

IP_1 == "ip1"

InitAuth ==
    /\ unix_now = U(EPOCH_2000 + 5)
    /\ ticks = 0
    /\ shared_core \in AuthCores
    /\ directory = [a \in AccountIds |->
                       IF a = ACCOUNT_1 THEN Some(<<HASH_1>>) ELSE None]
    /\ issued = {}
    /\ result = NoResult
    /\ lookup = [c \in Codes |-> None]
    /\ req = [p \in Reqs |-> IdleReq]
    /\ store_log = [p \in Reqs |-> <<>>]
    /\ fail2ban = NoAttempts
    /\ auth = [c \in AuthCalls |-> NoAuth]
    /\ NoSession
    /\ http = IdleHttp

\* The credentials call c presents: every kind for the first call, the
\* fallback administrator's name with either secret for the call beside it.
CredentialsOf(c) ==
    IF c = 1 THEN CredentialsSet
    ELSE {cr \in CredentialsSet : cr.kind = "Plain" /\ cr.username = STR_admin}

NextAuth ==
    \/ \E c \in AuthCalls : \E credentials \in CredentialsOf(c) :
          Authenticate(c, credentials, IP_1)
    \/ \E c \in AuthCalls, query \in QueryAnswers : QueryAnswered(c, query)
    \/ \E c \in AuthCalls, verify_ok \in BOOLEAN : VerifyAnswered(c, verify_ok)
    \/ \E c \in AuthCalls, name_ok \in BOOLEAN : NameAnswered(c, name_ok)
    \/ \E c \in AuthCalls, f2b_ok \in BOOLEAN : Fail2BanAnswered(c, f2b_ok)

SpecAuth == InitAuth /\ [][NextAuth]_vars

\* APPEND: one session, one or two commands, the first an APPEND.
MaxMessages == 3

MailboxNames == {"INBOX", "Shared", "Virtual", "Trash"}

SelectedMailboxes == {None, Some(MAILBOX_inbox), Some(MAILBOX_shared)}

AppendRequest(tag, mailbox_name, messages, parse_ok, selected) ==
    [kind |-> "APPEND", tag |-> tag, parse_ok |-> parse_ok, selected |-> selected,
     arguments |-> [tag |-> tag, mailbox_name |-> mailbox_name, messages |-> messages]]

NoopRequest(tag) ==
    [kind |-> "NOOP", tag |-> tag, parse_ok |-> TRUE, selected |-> None,
     arguments |-> [tag |-> tag, mailbox_name |-> "", messages |-> 0]]

FirstRequests ==
    {AppendRequest("a1", name, n, TRUE, selected) :
        name \in MailboxNames, n \in 1..MaxMessages, selected \in SelectedMailboxes}
    \cup {AppendRequest("a1", "INBOX", 1, FALSE, None)}

SecondRequests ==
    {NoopRequest("a2"), AppendRequest("a2", "INBOX", 1, TRUE, Some(MAILBOX_inbox))}

Scripts ==
    {<<first>> : first \in FirstRequests}
    \cup {<<first, second>> : first \in FirstRequests, second \in SecondRequests}

InitAppend ==
    /\ unix_now = U(EPOCH_2000 + 5)
    /\ ticks = 0
    /\ shared_core = Core1
    /\ directory = [a \in AccountIds |->
                       IF a = ACCOUNT_1 THEN Some(<<HASH_1>>) ELSE None]
    /\ issued = {}
    /\ result = NoResult
    /\ lookup = [c \in Codes |-> None]
    /\ req = [p \in Reqs |-> IdleReq]
    /\ store_log = [p \in Reqs |-> <<>>]
    /\ fail2ban = NoAttempts
    /\ auth = [c \in AuthCalls |-> NoAuth]
    /\ imap_in \in Scripts
    /\ handler = IdleHandler
    /\ tasks = [t \in Tags |-> IdleTask]
    /\ written = <<>>
    /\ broadcasts = <<>>
    /\ ingested = <<>>
    /\ store = [change_id |-> 0, next_doc |-> 1, next_uid |-> 1, docs |-> <<>>]
    /\ http = IdleHttp

NextAppend ==
    \/ HandleNoop
    \/ HandleAppend
    \/ \E sync_ok \in BOOLEAN : SynchronizeMailboxes(sync_ok)
    \/ HandlerWrite
    \/ \E t \in Tags, outcome \in {"allow", "deny", "error"} : CheckAcl(t, outcome)
    \/ \E t \in Tags, ok \in BOOLEAN : GetQuota(t, ok)
    \/ \E t \in Tags, outcome \in IngestOutcomes : Ingest(t, outcome)
    \/ \E t \in Tags : Broadcast(t)
    \/ \E t \in Tags, ok \in BOOLEAN : AssembleUids(t, ok)
    \/ \E t \in Tags : WriteResponse(t)
    \/ \E d \in DOMAIN store.docs : Expunge(d)

SpecAppend == InitAppend /\ [][NextAppend]_vars

\* The steps of the read loop of the session, and of the detached task t.
HandlerStep ==
    \/ HandleNoop
    \/ HandleAppend
    \/ \E sync_ok \in BOOLEAN : SynchronizeMailboxes(sync_ok)
    \/ HandlerWrite

TaskStep(t) ==
    \/ \E outcome \in {"allow", "deny", "error"} : CheckAcl(t, outcome)
    \/ \E ok \in BOOLEAN : GetQuota(t, ok)
    \/ \E outcome \in IngestOutcomes : Ingest(t, outcome)
    \/ Broadcast(t)
    \/ \E ok \in BOOLEAN : AssembleUids(t, ok)
    \/ WriteResponse(t)

\* APPEND under the scheduling of the runtime, the session alone on the
\* store: the read loop takes the next command of its input, every call a
\* handler or a task awaits returns, and the executor polls every spawned
\* task that can go on.
NextAppendLive ==
    \/ HandlerStep
    \/ \E t \in Tags : TaskStep(t)

SpecAppendLive ==
    /\ InitAppend
    /\ [][NextAppendLive]_vars
    /\ WF_vars(HandlerStep)
    /\ \A t \in Tags : WF_vars(TaskStep(t))

\* The chunks of a body, and how many of them and what limit a call is given.
MaxChunks == 3
MaxLimit == 3
Chunks == {<<>>, <<1>>, <<2, 3>>}

\* 2^32 + 1, a content length that does not fit 32 bits.
LENGTH_4G_1 == <<1, 0, 1, 0>>

ContentLengths ==
    {None, Some(LENGTH_4G_1)} \cup {Some(U(n)) : n \in 0..(MaxLimit + 1)}

RECURSIVE StreamsOf(_)
StreamsOf(n) ==
    IF n = 0 THEN {<<>>}
    ELSE LET shorter == StreamsOf(n - 1)
         IN  shorter \cup
             {Append(st, item) : st \in {x \in shorter : Len(x) = n - 1},
                  item \in {ChunkItem(c) : c \in Chunks} \cup {TransportError}}

InitHttp ==
    /\ unix_now = U(EPOCH_2000 + 5)
    /\ ticks = 0
    /\ shared_core = Core1
    /\ directory = [a \in {ACCOUNT_1} |-> Some(<<HASH_1>>)]
    /\ issued = {}
    /\ result = NoResult
    /\ lookup = [c \in Codes |-> None]
    /\ req = [p \in Reqs |-> IdleReq]
    /\ store_log = [p \in Reqs |-> <<>>]
    /\ fail2ban = NoAttempts
    /\ auth = [c \in AuthCalls |-> NoAuth]
    /\ NoSession
    /\ \E bits \in PointerWidths, limit \in 0..MaxLimit,
          content_length \in ContentLengths, stream \in StreamsOf(MaxChunks) :
          http = [IdleHttp EXCEPT !.pc = "check", !.usize_bits = bits,
                                  !.limit = limit,
                                  !.content_length = content_length,
                                  !.stream = stream, !.body = stream]

NextHttp ==
    \/ CheckContentLength
    \/ NextChunk

\* One call of bytes_with_limit on every response.
SpecHttp == InitHttp /\ [][NextHttp]_vars

\* A LEB128 encoding made one byte longer: the last byte gets the high bit and
\* a zero byte follows.
Overlong(bs) == [bs EXCEPT ![Len(bs)] = @ + 128] \o <<0>>

\* The bytes that bytes.copied().map(char::from) (line 326) reads back as the
\* chars of s, one byte for each char.
Latin1(s) == [i \in DOMAIN s |-> s[i] % 256]

\* The trailers presented in place of the trailer of an issued token: the
\* trailers of other accounts, expiries and client ids, the same values in
\* longer encodings, the client id written one byte for each char in place of
\* its UTF-8 bytes, and the trailer with one byte changed, added or removed.
Tamperings(rec) ==
    LET t == DecodeTrailer(rec.token.trailer).val
        trailer == rec.token.trailer
    IN  ({Leb128(a) \o Leb128(e) \o Utf8(c) :
            a \in AccountIds,
            e \in {t.expiry, WrappingAdd(t.expiry, U(1))},
            c \in {rec.client_id, rec.client_id \o CLIENT_a}}
         \cup {Overlong(Leb128(t.account_id)) \o Leb128(t.expiry) \o Utf8(rec.client_id),
               Leb128(t.account_id) \o Overlong(Leb128(t.expiry)) \o Utf8(rec.client_id)}
         \cup {Leb128(t.account_id) \o Leb128(t.expiry) \o Latin1(c) :
                  c \in {rec.client_id, rec.client_id \o CLIENT_a}}
         \cup {[trailer EXCEPT ![i] = (@ + 1) % 256] : i \in DOMAIN trailer}
         \cup {SubSeq(trailer, 1, Len(trailer) - 1)})
        \ {trailer}

NextTamper ==
    \/ \E a \in AccountIds, g \in GrantTypes, c \in {CLIENT_a, CLIENT_e_acute},
          e \in {U(1), U(2)} :
          IssueCustom(a, g, c, e, SEED_1, FALSE)
    \/ IssueAnswer(TRUE)
    \/ \E rec \in issued : Validate(rec.grant_type, rec)
    \/ ValidateAnswer(TRUE)
    \/ \E rec \in issued :
          \E trailer \in Tamperings(rec) :
              ValidateTampered(rec.grant_type, rec, trailer)
    \/ \E p \in {Some(<<HASH_1>>), Some(<<HASH_2>>)} : SetPrincipal(p)
    \/ Tick

\* The token service presented with tokens whose trailer was changed.
SpecTamper == InitToken /\ [][NextTamper]_vars

\* --------------------------------------------------------------------------
\* Claims about the token service
\* --------------------------------------------------------------------------

\* The token the last operation was about.
ResultToken == result.of[1]

\* The last operation validated a token: the call read the clock of the
\* token's issuance and held the configuration of its issuance, and the
\* directory answered with the first secret of its issuance.
ValidatedUnchanged ==
    /\ result.op = "validate"
    /\ ~result.pending
    /\ result.lookup_ok
    /\ ResultToken.issued_at = result.unix
    /\ ResultToken.core = result.core[1].id
    /\ ResultToken.hash = FirstSecret(result.core[1], directory, ResultToken.account_id)

\* C4 (as claimed): validating a token under its own grant type, with the stored
\* password hash and the clock unchanged since it was issued, succeeds and
\* returns exactly the account id, client id and expiry_in it was issued for.
C4_RoundTrip ==
    (ValidatedUnchanged /\ result.grant_type = ResultToken.grant_type)
        => /\ result.res.ok
           /\ result.res.val.account_id = ResultToken.account_id
           /\ result.res.val.client_id = ResultToken.client_id
           /\ result.res.val.time_left = ResultToken.expiry_in

\* The expiry a token carries in its trailer has passed on the clock `unix`.
ExpiredAt(rec, unix) ==
    LeqW(DecodeTrailer(rec.token.trailer).val.expiry, NowSince2000(unix))

\* The expiry a token carries in its trailer has passed.
Expired(rec) == ExpiredAt(rec, unix_now)

\* The last operation validated a token after the first stored secret of its
\* account changed to another value: the secret the call obtained is not the
\* one of the issuance.
ValidatedAfterRotation ==
    /\ result.op = "validate"
    /\ ~result.pending
    /\ FirstSecret(result.core[1], directory, ResultToken.account_id) # None
    /\ FirstSecret(result.core[1], directory, ResultToken.account_id) # ResultToken.hash

\* C5 (as claimed): after the first stored secret of an account changed, every
\* token issued before fails validation with the decode failure.
C5_RotationDecodeFailure ==
    (ValidatedAfterRotation /\ result.lookup_ok)
        => ~result.res.ok /\ result.res.err = "Failed to decode token"

\* C5 (amended): after the first stored secret of an account changed to another
\* value, every token issued before fails validation: with "Token expired" when
\* its expiry has passed, else with the lookup error when the directory does
\* not answer, else with "Failed to decode token".  It validates again only
\* once the old secret is stored again.
C5_RotationRevokes ==
    ValidatedAfterRotation
        => /\ ~result.res.ok
           /\ result.res.err =
                IF ExpiredAt(ResultToken, result.unix) THEN "Token expired"
                ELSE IF ~result.lookup_ok /\ ResultToken.account_id # U32_MAX
                     THEN "Temporary lookup error"
                     ELSE "Failed to decode token"

\* A token that has not expired is refused after a password change.
C5_Witness ==
    /\ ValidatedAfterRotation
    /\ result.lookup_ok
    /\ result.grant_type = ResultToken.grant_type
    /\ ~Expired(ResultToken)
    /\ LtW(NowSince2000(result.unix), NowSince2000(unix_now))
    /\ result.res.err = "Failed to decode token"

\* --------------------------------------------------------------------------
\* Claims about the token endpoint
\* --------------------------------------------------------------------------

\* The requests the endpoint granted a token.
Granted == {p \in Reqs : req[p].response # None
                          /\ req[p].response[1].kind = "granted"}

\* C1 (as claimed): of the concurrent token requests against one Authorized
\* code record, no two are granted an access token.
C1_AtMostOneGranted == Cardinality(Granted) <= 1

\* Request 1 presented the token `rec` to the refresh flow and was answered.
PresentedAndAnswered(rec) ==
    /\ req[1].pc = "done"
    /\ req[1].form.refresh_token = Some(rec.token)

\* C6: a token minted under one grant type never validates under another; an
\* access token presented to the token endpoint as refresh_token is answered
\* with invalid_grant and no token is minted for it, and a refresh token never
\* validates as an access token.
C6_GrantIsolation ==
    /\ (result.op = "validate" /\ ~result.pending
            /\ result.grant_type # ResultToken.grant_type)
          => ~result.res.ok
    /\ \A rec \in issued :
          rec.grant_type # STR_refresh_token
              => /\ req[1].form.refresh_token = Some(rec.token)
                    => req[1].pc \in {"validate", "validate_query", "done"}
                 /\ PresentedAndAnswered(rec)
                    => req[1].response = Some(ErrorResponse("invalid_grant"))

\* An access token that is neither expired nor revoked was presented as
\* refresh_token and refused.
C6_Witness ==
    \E rec \in issued :
        /\ rec.grant_type = STR_access_token
        /\ PresentedAndAnswered(rec)
        /\ ~Expired(rec)
        /\ rec.hash = FirstSecret(shared_core, directory, rec.account_id)
        /\ req[1].response = Some(ErrorResponse("invalid_grant"))

\* C3: every configuration value a request reads (the fallback administrator's
\* secret, oauth_key, oauth_expiry_token, oauth_expiry_refresh_token) comes
\* from the snapshot it loaded when it started, whatever is published since.
C3_SnapshotConsistency ==
    \A p \in Reqs :
        req[p].core # None =>
            LET core == req[p].core[1]
                response == req[p].response[1]
            IN  /\ req[p].seen \subseteq {core.id}
                /\ req[p].access # None
                      => req[p].access[1].ct.key = core.oauth_key
                /\ (req[p].response # None /\ response.kind = "granted")
                      => /\ response.expires_in = Some(core.oauth_expiry_token)
                         /\ response.access_token[1].ct.key = core.oauth_key
                         /\ response.refresh_token # None
                               => response.refresh_token[1].ct.key = core.oauth_key

\* A request is granted a token under the key and the lifetimes of the
\* snapshot it started with, after another snapshot was published.
C3_Witness ==
    \E p \in Granted :
        /\ req[p].core[1].id # shared_core.id
        /\ req[p].seen = {req[p].core[1].id}
        /\ req[p].form.code = Some(CODE_1)
        /\ lookup[CODE_1] = None

\* --------------------------------------------------------------------------
\* Claims about authentication
\* --------------------------------------------------------------------------

\* The call has returned.
Returned(call) == call.called /\ call.pc = "done"

\* Call c of authenticate takes the step.
CallStepped(c) == auth'[c] # auth[c]

\* The credentials of the call are Plain, name the configured fallback
\* administrator and carry its secret.
MatchesFallbackAdmin(call) ==
    /\ shared_core.fallback_admin # None
    /\ call.credentials.kind = "Plain"
    /\ call.credentials.username = shared_core.fallback_admin[1].name
    /\ HashOfSecret(call.credentials.secret) = shared_core.fallback_admin[1].secret

\* The credentials of the call are Plain, end with the master suffix and
\* carry the master secret.
MatchesMasterUser(call) ==
    /\ shared_core.master_user # None
    /\ call.credentials.kind = "Plain"
    /\ EndsWith(call.credentials.username, shared_core.master_user[1].suffix)
    /\ HashOfSecret(call.credentials.secret) = shared_core.master_user[1].secret

\* C7: when the directory reports MissingTotp, authenticate returns that error
\* at once: neither the fallback administrator nor the master user nor
\* fail-to-ban is consulted, whatever is configured and whatever other calls
\* do in between.
C7_MissingTotpShortCircuits ==
    [][\A c \in AuthCalls :
          (auth'[c].called /\ auth'[c].query.kind = "missing_totp") =>
              /\ auth'[c].pc = "done"
              /\ ~auth'[c].res.ok
              /\ auth'[c].res.err = "MissingTotp"
              /\ auth'[c].consulted = {}
              /\ CallStepped(c) => fail2ban' = fail2ban]_vars

\* MissingTotp came back to credentials the fallback administrator's check
\* would accept, with fail-to-ban configured and another call in flight.
C7_Witness ==
    \E c \in AuthCalls, d \in AuthCalls :
        /\ Returned(auth[c])
        /\ auth[c].query.kind = "missing_totp"
        /\ MatchesFallbackAdmin(auth[c])
        /\ shared_core.fail2ban # None
        /\ auth[c].res.err = "MissingTotp"
        /\ auth[d].pc = "fail2ban"

\* C8: when the directory yields no principal (None or an error other than
\* MissingTotp) and Plain credentials name the fallback administrator with a
\* secret that verifies, authenticate returns the synthetic fallback
\* administrator principal; XOauth2 and OAuthBearer credentials never obtain it.
C8_FallbackAdmin ==
    \A c \in AuthCalls :
        Returned(auth[c]) =>
            /\ (/\ auth[c].query.kind \in {"none", "error"}
                /\ MatchesFallbackAdmin(auth[c])
                /\ auth[c].verify_ok)
               => /\ auth[c].res.ok
                  /\ auth[c].res.principal[1].fallback_admin
                  /\ auth[c].res.principal[1].secrets
                        = <<shared_core.fallback_admin[1].secret>>
            /\ (auth[c].credentials.kind # "Plain")
               => ~(auth[c].res.ok /\ auth[c].res.principal[1].fallback_admin)

C8_Witness ==
    \E c \in AuthCalls :
        /\ Returned(auth[c])
        /\ auth[c].query.kind = "error"
        /\ MatchesFallbackAdmin(auth[c])
        /\ auth[c].verify_ok
        /\ auth[c].res.ok
        /\ auth[c].res.principal[1].fallback_admin

\* The name the master user's login stands for: the username without the
\* suffix and without one trailing '%'.
C9_TargetName(call) ==
    LET suffix == shared_core.master_user[1].suffix
        u == call.credentials.username
        base == SubSeq(u, 1, Len(u) - Len(suffix))
    IN  IF Len(base) > 0 /\ base[Len(base)] = 37
        THEN SubSeq(base, 1, Len(base) - 1) ELSE base

\* C9: when the directory yields no principal and Plain credentials end with
\* the master suffix with a secret that verifies, authenticate returns the
\* principal named by the username without the suffix and one trailing '%',
\* if it exists; also for a username equal to the fallback administrator's.
C9_MasterUser ==
    \A c \in AuthCalls :
        (/\ Returned(auth[c])
         /\ auth[c].query.kind \in {"none", "error"}
         /\ MatchesMasterUser(auth[c])
         /\ auth[c].verify_ok
         /\ auth[c].name_ok
         /\ \E pr \in DirectoryPrincipals : pr.name = C9_TargetName(auth[c]))
        => /\ auth[c].res.ok
           /\ auth[c].res.principal[1].name = C9_TargetName(auth[c])
           /\ ~auth[c].res.principal[1].fallback_admin

\* --------------------------------------------------------------------------
\* Claims about APPEND
\* --------------------------------------------------------------------------

\* The successful calls of the ingest port made by the run of task t, in order,
\* and the broadcasts that run emitted.
SuccessfulIngests(t) ==
    SelectSeq(ingested, LAMBDA e : e.task = t /\ e.outcome = "Ok")

BroadcastsOf(t) == SelectSeq(broadcasts, LAMBDA b : b.task = t)

\* The run of task t is past its broadcast phase.
PastBroadcast(t) == tasks[t].pc \in {"uids", "write", "done"}

\* C2: a run of append_messages emits at most one StateChange; exactly one iff
\* it ingested at least one message; the broadcast is for the target account
\* and carries the change id of the last successful ingest for Email, Mailbox
\* and Thread.
C2_BroadcastOnce ==
    \A t \in Tags :
        LET bs == BroadcastsOf(t)
            ok == SuccessfulIngests(t)
        IN  /\ Len(bs) <= 1
            /\ ~PastBroadcast(t) => bs = <<>>
            /\ PastBroadcast(t) => (Len(bs) = 1 <=> ok # <<>>)
            /\ bs # <<>> =>
                  /\ ok # <<>>
                  /\ bs[1].account_id
                        = GetMailboxByName(tasks[t].arguments.mailbox_name)[1].account_id
                  /\ bs[1].Email = ok[Len(ok)].change_id
                  /\ bs[1].Mailbox = ok[Len(ok)].change_id
                  /\ bs[1].Thread = ok[Len(ok)].change_id

C2_Witness ==
    /\ tasks["a1"].pc = "done"
    /\ Len(SuccessfulIngests("a1")) = 2
    /\ Len(SuccessfulIngests("a2")) = 1
    /\ SuccessfulIngests("a1")[2].change_id = 3
    /\ Len(BroadcastsOf("a1")) = 1
    /\ BroadcastsOf("a1")[1].Email = 3
    /\ BroadcastsOf("a1")[1].account_id = 1

\* C10: when the k-th message fails ingest with OverQuota, whatever k, the
\* response of the command is the tagged NO [OVERQUOTA] "Disk quota exceeded.".
C10_OverQuotaResponse ==
    \A t \in Tags :
        (/\ tasks[t].pc \in {"write", "done"}
         /\ \E i \in DOMAIN ingested :
               ingested[i].task = t /\ ingested[i].outcome = "OverQuota")
        => /\ tasks[t].ret.tag = t
           /\ tasks[t].ret.kind = "NO"
           /\ tasks[t].ret.code.name = "OVERQUOTA"
           /\ tasks[t].ret.message = "Disk quota exceeded."

\* The uids, as the store has them now, of the documents the run of task t
\* created that are still in its target mailbox, in the order of creation.
CreatedUidsNow(t) ==
    LET present == SelectSeq(SuccessfulIngests(t),
                       LAMBDA e : /\ e.document_id \in DOMAIN store.docs
                                  /\ store.docs[e.document_id].mailbox = tasks[t].mailbox)
    IN  [i \in 1..Len(present) |-> store.docs[present[i].document_id].uid]

\* C11: the uids of the APPENDUID code are the created document ids, in the
\* order of creation, mapped through the document -> uid map of the mailbox as
\* it is when the uids are assembled; ids without a mapping are dropped and
\* nothing else is reordered, repeated or added, whether the selected mailbox
\* is the target or not.
C11_UidOrder ==
    [][\A t \in Tags :
         (tasks[t].pc = "uids" /\ tasks'[t].pc = "write"
             /\ tasks'[t].ret.code.name = "APPENDUID")
         => /\ tasks'[t].ret.code.uids = CreatedUidsNow(t)
            /\ tasks'[t].ret.code.uid_validity = UID_VALIDITY[tasks[t].mailbox]]_vars

C11_Witness ==
    /\ tasks["a1"].pc = "done"
    /\ tasks["a1"].selected_mailbox = None
    /\ Len(SuccessfulIngests("a1")) = 3
    /\ tasks["a1"].ret.code.name = "APPENDUID"
    /\ Len(tasks["a1"].ret.code.uids) = 2
    /\ tasks["a1"].ret.code.uids[1] < tasks["a1"].ret.code.uids[2]
    /\ tasks["a2"].pc = "done"
    /\ tasks["a2"].selected_mailbox = Some(tasks["a2"].mailbox)
    /\ tasks["a2"].ret.code.name = "APPENDUID"
    /\ Len(tasks["a2"].ret.code.uids) = 1

\* C12 (as claimed): on the session writer the response to a command received
\* after an APPEND never precedes the response of that APPEND.
C12_ResponseOrder ==
    \A i \in DOMAIN written :
        written[i].tag = "a2" => \E j \in 1..(i - 1) : written[j].tag = "a1"

\* --------------------------------------------------------------------------
\* Claims about one token request
\* --------------------------------------------------------------------------

\* The calls of the lookup store request p made.
StoreCallsOf(p) == store_log[p]

\* Request p is answered: its response, and whether a store call of it failed.
Answered(p) == req[p].response # None

ResponseOf(p) == req[p].response[1]

StoreFailed(p) == \E i \in DOMAIN store_log[p] : ~store_log[p][i].ok

\* The record under the code of request p when the request read it, or as the
\* store still holds it when the request did not get to read it.
StoredRecord(p) ==
    LET gets == SelectSeq(StoreCallsOf(p), LAMBDA c : c.op = "key_get" /\ c.ok)
    IN  IF gets # <<>> THEN gets[1].found
        ELSE KeyGetValue(lookup, CodeOf(req[p].form))

\* Request p is an authorization_code request with code, client_id and
\* redirect_uri.
AuthCodeComplete(p) ==
    /\ EqIgnoreAsciiCase(req[p].form.grant_type, STR_authorization_code)
    /\ req[p].form.code # None
    /\ req[p].form.client_id # None
    /\ req[p].form.redirect_uri # None

IsError(p, kind) ==
    /\ ResponseOf(p).kind = "error"
    /\ ResponseOf(p).error = kind
    /\ ResponseOf(p).status = 400

GrantedWithRefresh(p) ==
    /\ ResponseOf(p).kind = "granted"
    /\ ResponseOf(p).status = 200
    /\ ResponseOf(p).access_token # None
    /\ ResponseOf(p).refresh_token # None

\* The errors of issue_token.
IssueErrors ==
    {"Temporary lookup error", "Account no longer exists",
     "Failed to obtain password hash", "Invalid account id.",
     "ClientId is too long", "panic"}

\* The table of the authorization_code grant, given what follows an
\* Authorized record.
AuthCodeTable(p, authorized) ==
    LET rec == StoredRecord(p)
        form == req[p].form
    IN  IF rec = None THEN IsError(p, "access_denied")
        ELSE IF form.client_id[1] # rec[1].client_id
                \/ form.redirect_uri[1] # rec[1].params
        THEN IsError(p, "invalid_client")
        ELSE IF rec[1].status = "Authorized" THEN authorized
        ELSE IsError(p, "invalid_grant")

\* C13 (as claimed): an authorization_code request with all its parameters is
\* answered by the stored record alone: no record, access_denied; another
\* client_id or redirect_uri, invalid_client; Authorized, the key is deleted
\* and a token with a refresh token is granted; Pending or TokenIssued,
\* invalid_grant.
C13_AuthCodeOutcome ==
    (Answered(1) /\ AuthCodeComplete(1)) =>
        AuthCodeTable(1, /\ lookup[CodeOf(req[1].form)] = None
                         /\ GrantedWithRefresh(1))

\* C13 (amended): the same while the lookup store answers, except that for an
\* Authorized record the key is deleted first and the token is granted only
\* when issue_token succeeds: when it fails the request ends with that error,
\* the key deleted.  A store call that fails ends the request with its error.
C13_AuthCodeOutcomeAmended ==
    (Answered(1) /\ AuthCodeComplete(1)) =>
        IF StoreFailed(1)
        THEN ResponseOf(1).kind = "failure" /\ ResponseOf(1).error = "store"
        ELSE AuthCodeTable(1,
                /\ lookup[CodeOf(req[1].form)] = None
                /\ \/ GrantedWithRefresh(1)
                   \/ /\ ResponseOf(1).kind = "failure"
                      /\ ResponseOf(1).error \in IssueErrors)

C13_Witness ==
    /\ Answered(1)
    /\ AuthCodeComplete(1)
    /\ StoredRecord(1) # None
    /\ StoredRecord(1)[1].status = "Authorized"
    /\ GrantedWithRefresh(1)
    /\ lookup[CODE_1] = None

\* Request p is a device_code request with device_code and client_id.
DeviceComplete(p) ==
    /\ EqIgnoreAsciiCase(req[p].form.grant_type, STR_device_code)
    /\ req[p].form.device_code # None
    /\ req[p].form.client_id # None

\* The table of the device_code grant, given what follows an Authorized record.
DeviceTable(p, authorized) ==
    LET rec == StoredRecord(p)
    IN  IF rec = None THEN IsError(p, "expired_token")
        ELSE IF req[p].form.client_id[1] # rec[1].client_id
        THEN IsError(p, "invalid_client")
        ELSE IF rec[1].status = "Authorized" THEN authorized
        ELSE IF rec[1].status = "Pending" THEN IsError(p, "authorization_pending")
        ELSE IsError(p, "expired_token")

\* C14 (as claimed): a device_code request with device_code and client_id is
\* answered by the stored record alone: no record, expired_token; another
\* client_id, invalid_client; Authorized, the key is deleted and a token with a
\* refresh token is granted; Pending, authorization_pending with status 400;
\* TokenIssued, expired_token.
C14_DeviceOutcome ==
    (Answered(1) /\ DeviceComplete(1)) =>
        DeviceTable(1, /\ lookup[CodeOf(req[1].form)] = None
                       /\ GrantedWithRefresh(1))

\* C14 (amended): the same while the lookup store answers, except that for an
\* Authorized record the key is deleted first and the token is granted only
\* when issue_token succeeds; a store call that fails ends the request with
\* its error.
C14_DeviceOutcomeAmended ==
    (Answered(1) /\ DeviceComplete(1)) =>
        IF StoreFailed(1)
        THEN ResponseOf(1).kind = "failure" /\ ResponseOf(1).error = "store"
        ELSE DeviceTable(1,
                /\ lookup[CodeOf(req[1].form)] = None
                /\ \/ GrantedWithRefresh(1)
                   \/ /\ ResponseOf(1).kind = "failure"
                      /\ ResponseOf(1).error \in IssueErrors)

C14_Witness ==
    /\ Answered(1)
    /\ DeviceComplete(1)
    /\ StoredRecord(1) # None
    /\ StoredRecord(1)[1].status = "Pending"
    /\ IsError(1, "authorization_pending")
    /\ lookup[CODE_1] = StoredRecord(1)

\* Request p names a recognized grant type and lacks a parameter the grant
\* type requires.
LacksParameter(p) ==
    LET form == req[p].form
    IN  \/ /\ EqIgnoreAsciiCase(form.grant_type, STR_authorization_code)
           /\ (form.code = None \/ form.client_id = None \/ form.redirect_uri = None)
        \/ /\ EqIgnoreAsciiCase(form.grant_type, STR_device_code)
           /\ (form.device_code = None \/ form.client_id = None)
        \/ /\ EqIgnoreAsciiCase(form.grant_type, STR_refresh_token)
           /\ form.refresh_token = None

\* C15 (as claimed): a request of a recognized grant type that lacks a required
\* parameter is answered with invalid_client or invalid_request, with no other
\* error kind and no token, and makes no call of the lookup store.
C15_MissingParameters ==
    (Answered(1) /\ LacksParameter(1)) =>
        /\ ResponseOf(1).kind = "error"
        /\ ResponseOf(1).error \in {"invalid_client", "invalid_request"}
        /\ StoreCallsOf(1) = <<>>

\* --------------------------------------------------------------------------
\* Claims about the refresh flow
\* --------------------------------------------------------------------------

\* The token record presented as refresh_token by request 1.
Presented == CHOOSE rec \in issued : req[1].form.refresh_token = Some(rec.token)

\* What is left of the life of a token: the expiry it was given when issued,
\* less the time the validation of request 1 read from the clock.
RemainingLifetime(rec) ==
    SubW(WrappingAdd(NowSince2000(rec.issued_at), rec.expiry_in),
         req[1].checked[1].now)

\* A token of grant type g for the account and the client of rec.
TokenFor(token, g, rec) ==
    LET t == DecodeTrailer(token.trailer)
    IN  /\ t.ok
        /\ t.val.account_id = rec.account_id
        /\ t.val.client_id = rec.client_id
        /\ \E h \in {HASH_1, HASH_2} :
              token.ct.context = Context(g, rec.client_id, rec.account_id, h)

\* The validation of the presented refresh token by request 1: a failure is
\* answered with invalid_grant and no token, a success keeps the account and
\* the client of the token and asks for a refresh token exactly when the
\* remaining lifetime is at most oauth_expiry_refresh_token_renew.
RefreshValidated ==
    (req[1].pc \in {"validate", "validate_query"}
        /\ req'[1].pc \notin {"validate", "validate_query"}) =>
        \/ /\ req'[1].pc = "done"
           /\ req'[1].response = Some(ErrorResponse("invalid_grant"))
        \/ /\ req'[1].pc = "hash"
           /\ Presented.grant_type = STR_refresh_token
           /\ req'[1].account_id = Presented.account_id
           /\ req'[1].client_id = Presented.client_id
           /\ req'[1].with_refresh =
                  LeqW(RemainingLifetime(Presented),
                       Snapshot(1).oauth_expiry_refresh_token_renew)

\* The response granted to request 1 after a successful validation.
RefreshGranted ==
    LET response == req'[1].response[1]
    IN  /\ response.kind = "granted"
        /\ response.status = 200
        /\ TokenFor(response.access_token[1], STR_access_token, Presented)
        /\ (response.refresh_token # None) = req[1].with_refresh
        /\ response.refresh_token # None
              => TokenFor(response.refresh_token[1], STR_refresh_token, Presented)

\* Request 1 is answered after its refresh token validated.
RefreshIssueEnds ==
    req[1].pc \in {"hash", "access", "refresh"} /\ req'[1].pc = "done"

\* C16 (as claimed): a refresh_token request whose token validates always
\* returns a new access token for the same account_id and client_id, with a
\* freshly minted refresh token iff the remaining lifetime of the presented
\* token is <= oauth_expiry_refresh_token_renew; a token that fails validation
\* yields invalid_grant and mints nothing.
C16_RefreshFlow ==
    [][RefreshValidated /\ (RefreshIssueEnds => RefreshGranted)]_vars

\* C16 (amended): the same, except that after a successful validation the
\* request ends without any token when issue_token fails (the directory does
\* not answer, the account or its secret is gone since the validation).
C16_RefreshFlowAmended ==
    [][/\ RefreshValidated
       /\ RefreshIssueEnds =>
             \/ RefreshGranted
             \/ /\ req'[1].response[1].kind = "failure"
                /\ req'[1].response[1].error \in IssueErrors
                /\ req'[1].response[1].access_token = None
                /\ req'[1].response[1].refresh_token = None]_vars

\* A refresh token with exactly oauth_expiry_refresh_token_renew seconds left
\* was presented and answered with an access token and a refresh token.
C16_Witness ==
    /\ req[1].pc = "done"
    /\ req[1].response[1].kind = "granted"
    /\ req[1].response[1].refresh_token # None
    /\ req[1].with_refresh
    /\ RemainingLifetime(Presented) =
          Snapshot(1).oauth_expiry_refresh_token_renew

\* --------------------------------------------------------------------------
\* Claims about the expiry of a token
\* --------------------------------------------------------------------------

\* The expiry written in the trailer of a token.
EmbeddedExpiry(token) == DecodeTrailer(token.trailer).val.expiry

\* C17: validate_access_token fails with "Token expired" for every well-formed
\* token whose embedded expiry is <= now, whether or not the directory answers
\* and the token decrypts; every successful validation returns the remaining
\* lifetime expiry - now, which is strictly positive.
C17_ExpiryFirst ==
    (result.op = "validate" /\ ~result.pending) =>
        LET token == ResultToken.token
            expiry == EmbeddedExpiry(token)
            now == NowSince2000(result.unix)
        IN  /\ DecodeTrailer(token.trailer).ok
            /\ LeqW(expiry, now) => result.res = Err("Token expired")
            /\ result.res.ok =>
                  /\ LtW(now, expiry)
                  /\ result.res.val.time_left # Zero
                  /\ WrappingAdd(now, result.res.val.time_left) = expiry

\* A token validated in the very second of its expiry, when the account's
\* password had changed since the token was issued, was refused as expired
\* without a query of the directory.
C17_Witness ==
    /\ result.op = "validate"
    /\ ~result.pending
    /\ EmbeddedExpiry(ResultToken.token) = NowSince2000(result.unix)
    /\ result.unix = unix_now
    /\ result.checked = NoChecked
    /\ ResultToken.account_id # U32_MAX
    /\ ResultToken.hash # FirstSecret(shared_core, directory, ResultToken.account_id)
    /\ result.res = Err("Token expired")

\* --------------------------------------------------------------------------
\* Claims about the errors of authenticate
\* --------------------------------------------------------------------------

\* C18: every error returned by authenticate, on every path (MissingTotp, the
\* deferred directory error, an error of the secret verification or of the
\* directory during the fallback checks, AuthFailed, AuthenticationBan),
\* carries both the remote_ip and the account_name context.
C18_ErrorContext ==
    \A c \in AuthCalls :
        (Returned(auth[c]) /\ ~auth[c].res.ok) => auth[c].res.ctx = IP_AND_ACCOUNT

\* --------------------------------------------------------------------------
\* Claims about the deletion of the code
\* --------------------------------------------------------------------------

\* C19: the oauth:{code} record is deleted exactly when token issuance
\* succeeds: after a token request on an Authorized record the record is
\* absent from the lookup store iff that request was granted a token; a
\* request whose issue_token step fails leaves the record in the store.
C19_DeletedIffGranted ==
    (/\ Answered(1)
     /\ AuthCodeComplete(1) \/ DeviceComplete(1)
     /\ StoredRecord(1) # None
     /\ StoredRecord(1)[1].status = "Authorized")
    => (lookup[CodeOf(req[1].form)] = None <=> ResponseOf(1).kind = "granted")

\* --------------------------------------------------------------------------
\* Claims about the preconditions of APPEND
\* --------------------------------------------------------------------------

\* The calls of the ingest port made for the command of tag t.
IngestsOf(t) == SelectSeq(ingested, LAMBDA e : e.task = t)

\* The command of tag t has had no effect outside the session.
NoSideEffect(t) == IngestsOf(t) = <<>> /\ BroadcastsOf(t) = <<>>

\* The response a precondition of handle_append fails with, for a request
\* whose mailboxes were refreshed.
PreconditionResponse(arguments) ==
    LET found == GetMailboxByName(arguments.mailbox_name)
    IN  IF found = None
        THEN Some(WithCode(WithTag(StatusNo("Mailbox does not exist."),
                                   arguments.tag), Code("TRYCREATE")))
        ELSE IF found[1].mailbox_id = None
        THEN Some(WithCode(WithTag(
                 StatusNo("Appending messages to this mailbox is not allowed."),
                 arguments.tag), Code("CANNOT")))
        ELSE None

\* handle_append goes on after synchronize_mailboxes: a failed precondition
\* goes to write_bytes with its response, with nothing spawned, ingested or
\* broadcast; the write of the handler is that response and nothing else.
AppendTaken ==
    /\ (handler.pc = "sync" /\ handler'.pc # "sync") =>
          LET arguments == handler.arguments
              failed == PreconditionResponse(arguments)
              refresh_error == WithTag(DatabaseFailure, arguments.tag)
          IN  IF handler'.pc = "write"
              THEN /\ \/ handler'.response = refresh_error
                      \/ (failed # None /\ handler'.response = failed[1])
                   /\ tasks' = tasks
                   /\ tasks[arguments.tag].pc = "idle"
                   /\ written' = written
                   /\ ingested' = ingested
                   /\ broadcasts' = broadcasts
                   /\ NoSideEffect(arguments.tag)
              ELSE /\ failed = None
                   /\ tasks'[arguments.tag].pc = "acl"
    /\ (handler.pc = "write" /\ handler'.pc # "write") =>
          /\ written' = Append(written, handler.response)
          /\ tasks' = tasks
          /\ ingested' = ingested
          /\ broadcasts' = broadcasts
          /\ handler.response.tag # "" => NoSideEffect(handler.response.tag)

\* The first call of append_messages is the ACL check; a denial is answered
\* with the tagged NO [NOPERM], and no ingest or broadcast is made for a
\* command unless its ACL check allowed it.
AclFirst(t) ==
    /\ tasks[t].pc \in {"idle", "acl"} => (NoSideEffect(t) /\ tasks[t].acl = "unchecked")
    /\ tasks[t].acl # "allow" => NoSideEffect(t)
    /\ tasks[t].acl = "deny" =>
          /\ tasks[t].pc \in {"write", "done"}
          /\ tasks[t].ret.tag = t
          /\ tasks[t].ret.kind = "NO"
          /\ tasks[t].ret.code = Code("NOPERM")
    /\ \A i \in DOMAIN written :
          (written[i].tag = t /\ written[i].code.name \in {"TRYCREATE", "CANNOT", "NOPERM"})
              => NoSideEffect(t)

\* C20: a mailbox-refresh error, an unknown mailbox name (NO TRYCREATE), a
\* mailbox without mailbox_id (NO CANNOT) and a denied AddItems ACL (NO NOPERM)
\* each produce their tagged response with no call of the ingest port and no
\* StateChange broadcast; the ACL check precedes the first ingest.
C20_PreconditionsFirst ==
    [][AppendTaken /\ \A t \in Tags : AclFirst(t)']_vars

\* A command denied by the ACL was answered NO [NOPERM] with nothing ingested
\* or broadcast for it, while the command after it ingested a message.
C20_Witness ==
    /\ tasks["a1"].acl = "deny"
    /\ \E i \in DOMAIN written :
          written[i].tag = "a1" /\ written[i].code = Code("NOPERM")
    /\ NoSideEffect("a1")
    /\ SuccessfulIngests("a2") # <<>>
    /\ BroadcastsOf("a2") # <<>>

\* --------------------------------------------------------------------------
\* Claims about the HTTP response size limiter
\* --------------------------------------------------------------------------

\* The call of bytes_with_limit has looked at the content length.
LengthChecked == http.pc \in {"stream", "done"}

\* The response advertises a content length greater than the limit.
AdvertisesMore ==
    http.content_length # None /\ LtW(U(http.limit), http.content_length[1])

\* The call returned absent without polling the stream.
ShortCircuited ==
    http.pc = "done" /\ http.res = Ok(None) /\ http.polled = 0

\* C21: bytes_with_limit returns Ok(None) without reading any chunk whenever
\* the response advertises a content-length greater than limit; a
\* content-length equal to limit, or no content-length, does not short-circuit.
C21_ContentLengthShortCircuit ==
    LengthChecked =>
        /\ AdvertisesMore => ShortCircuited
        /\ (http.content_length = None \/ http.content_length = Some(U(http.limit)))
              => ~ShortCircuited

\* The bytes of the first n items of a stream, in order.
RECURSIVE Concat(_, _)
Concat(items, n) ==
    IF n = 0 THEN <<>> ELSE Concat(items, n - 1) \o items[n].chunk

\* The stream ends without a transport error.
NoTransportError(items) == \A i \in DOMAIN items : items[i].ok

\* The call went on to stream the body.
Streamed == LengthChecked /\ ~ShortCircuited

\* The items of the body polled so far.
Polled == Len(http.body) - Len(http.stream)

\* C22: while bytes_with_limit streams chunks the buffer never exceeds limit
\* bytes; for a stream without transport errors it returns the full body (all
\* chunks in order) iff the total size is <= limit, and returns absent as soon
\* as appending the next chunk would make the cumulative size exceed limit.
C22_StreamWithinLimit ==
    /\ Len(http.bytes) <= http.limit
    /\ (Streamed /\ NoTransportError(http.body)) =>
        LET total == Len(Concat(http.body, Len(http.body)))
        IN  /\ http.pc = "stream" =>
                  /\ http.bytes = Concat(http.body, Polled)
                  /\ http.polled = Polled
            /\ http.pc = "done" =>
                  /\ http.res.ok
                  /\ http.res.val # None <=> total <= http.limit
                  /\ http.res.val # None =>
                        http.res.val = Some(Concat(http.body, Len(http.body)))
                  /\ http.res.val = None =>
                        /\ Len(Concat(http.body, Polled)) > http.limit
                        /\ Len(Concat(http.body, Polled - 1)) <= http.limit
                        /\ http.bytes = Concat(http.body, Polled - 1)
                        /\ http.polled = Polled

\* A body of two chunks whose sizes add up to the limit exactly was returned
\* whole.
C22_Witness ==
    /\ http.pc = "done"
    /\ http.body = <<ChunkItem(<<1>>), ChunkItem(<<2, 3>>)>>
    /\ http.limit = 3
    /\ http.content_length = None
    /\ http.res = Ok(Some(<<1, 2, 3>>))

\* --------------------------------------------------------------------------
\* Claims about the deferred directory error and fail-to-ban
\* --------------------------------------------------------------------------

\* The call got an error other than MissingTotp from the directory.
DirectoryFailed(call) == call.called /\ call.query.kind = "error"

\* C23 (as claimed): when the query by credentials failed with an error other
\* than MissingTotp and no fallback produced a principal, authenticate
\* returns exactly that directory error, never AuthFailed or
\* AuthenticationBan, and records no fail-to-ban attempt.
C23_DeferredError ==
    [][\A c \in AuthCalls :
          DirectoryFailed(auth'[c]) =>
              /\ CallStepped(c) => fail2ban' = fail2ban
              /\ (Returned(auth'[c]) /\ ~auth'[c].res.ok)
                    => auth'[c].res.err = "directory"]_vars

\* What a call whose query by credentials failed returns.
DeferredOutcome(call) ==
    /\ "fail2ban" \notin call.consulted
    /\ ~call.res.ok =>
          call.res.err =
              IF call.consulted # {} /\ ~call.verify_ok
              THEN "verify_secret_hash"
              ELSE IF "name_query" \in call.consulted /\ ~call.name_ok
              THEN "name_query"
              ELSE "directory"
    /\ call.res.ok =>
          /\ call.consulted # {}
          /\ call.verify_ok
          /\ MatchesFallbackAdmin(call) \/ MatchesMasterUser(call)

\* C23 (amended): the same, except that an error raised by a fallback check
\* (the verification of the secret, the query by name of the master user's
\* target) is returned in place of the remembered directory error; a call
\* that returns a principal got it from a fallback check.  No step of such a
\* call records an attempt, whatever other calls record in between.
C23_DeferredErrorAmended ==
    [][\A c \in AuthCalls :
          DirectoryFailed(auth'[c]) =>
              /\ CallStepped(c) => fail2ban' = fail2ban
              /\ auth'[c].pc # "fail2ban"
              /\ Returned(auth'[c]) => DeferredOutcome(auth'[c])]_vars

\* The directory failed for credentials no fallback accepts, with fail-to-ban
\* configured and an attempt recorded by another call: the directory error
\* came back.
C23_Witness ==
    \E c \in AuthCalls, d \in AuthCalls :
        /\ Returned(auth[c])
        /\ DirectoryFailed(auth[c])
        /\ shared_core.fail2ban # None
        /\ shared_core.fallback_admin # None
        /\ auth[c].credentials.kind = "Plain"
        /\ auth[c].credentials.username = shared_core.fallback_admin[1].name
        /\ auth[c].verify_ok
        /\ ~MatchesFallbackAdmin(auth[c])
        /\ auth[c].res.err = "directory"
        /\ d # c
        /\ Returned(auth[d])
        /\ "fail2ban" \in auth[d].consulted
        /\ fail2ban # NoAttempts

\* The key of fail-to-ban for the call.
LastKey(call) == <<call.remote_ip, Login(call.credentials)>>

\* The call reached the final failure step of authenticate and returned from
\* it: the directory returned None and no fallback check returned.
ReachedFailureStep(call) ==
    /\ Returned(call)
    /\ call.query.kind = "none"
    /\ ~call.res.ok
    /\ call.res.err \notin {"verify_secret_hash", "name_query"}

\* Call c returns from the final failure step in this step.
FailureStepTaken(c) == CallStepped(c) /\ ReachedFailureStep(auth'[c])

\* What the final failure step does when fail-to-ban answers.
BanOrFailed(c) ==
    IF shared_core.fail2ban # None
    THEN /\ fail2ban' = RecordAttempt(fail2ban, LastKey(auth'[c]))
         /\ auth'[c].res.err =
               IF Attempts(fail2ban', LastKey(auth'[c])) > shared_core.fail2ban[1]
               THEN "AuthenticationBan" ELSE "Failed"
    ELSE /\ fail2ban' = fail2ban
         /\ auth'[c].res.err = "Failed"

\* Every other step leaves the fail-to-ban state as it was.
OnlyFailureStepRecords ==
    /\ fail2ban' # fail2ban =>
          /\ shared_core.fail2ban # None
          /\ \E c \in AuthCalls : FailureStepTaken(c)
    /\ \A c \in AuthCalls :
          (/\ CallStepped(c)
           /\ auth'[c].res.ok \/ auth'[c].query.kind \in {"missing_totp", "error"})
          => fail2ban' = fail2ban

\* C24 (as claimed): an attempt is recorded against (remote_ip, login) only in
\* the final failure step and with fail-to-ban configured; that step returns
\* AuthenticationBan iff the threshold trips and AuthFailed otherwise, and
\* AuthFailed when fail-to-ban is not configured; a successful call, a
\* MissingTotp one or one ending in a deferred error never changes the state.
C24_FailToBan ==
    [][/\ OnlyFailureStepRecords
       /\ \A c \in AuthCalls : FailureStepTaken(c) => BanOrFailed(c)]_vars

\* C24 (amended): the same, except that when is_auth_fail2banned itself fails
\* its error is returned, neither AuthenticationBan nor AuthFailed.
C24_FailToBanAmended ==
    [][/\ OnlyFailureStepRecords
       /\ \A c \in AuthCalls :
             FailureStepTaken(c) =>
                 IF shared_core.fail2ban # None /\ ~auth'[c].f2b_ok
                 THEN auth'[c].res.err = "store" /\ fail2ban' = fail2ban
                 ELSE BanOrFailed(c)]_vars

\* Two calls from the same address for the same login ran side by side with a
\* threshold of one: the first to reach is_auth_fail2banned failed, the
\* second was banned.
C24_Witness ==
    \E c \in AuthCalls, d \in AuthCalls :
        /\ c # d
        /\ ReachedFailureStep(auth[c])
        /\ ReachedFailureStep(auth[d])
        /\ shared_core.fail2ban = Some(1)
        /\ LastKey(auth[c]) = LastKey(auth[d])
        /\ auth[d].before = NoAttempts
        /\ auth[d].res.err = "Failed"
        /\ Attempts(auth[c].before, LastKey(auth[c])) = 1
        /\ Attempts(fail2ban, LastKey(auth[c])) = 2
        /\ auth[c].res.err = "AuthenticationBan"

\* --------------------------------------------------------------------------
\* Claims about the expiry written in a token
\* --------------------------------------------------------------------------

\* min(x + y, 2^64 - 1).
SaturatingSum(x, y) == IF AddOverflows(x, y) THEN U64_MAX ELSE WrappingAdd(x, y)

\* C25: the expiry written in a token is computed with saturating arithmetic:
\* expiry = min(max(unix_now - 946684800, 0) + expiry_in, 2^64 - 1) for every
\* clock and every expiry_in; the sum never wraps around and never aborts, so
\* a token issued later with the same expiry_in never expires earlier.
C25_SaturatingExpiry ==
    (result.op = "issue" /\ ~result.pending) =>
        /\ result.res.err # "panic"
        /\ result.res.ok =>
              /\ EmbeddedExpiry(ResultToken.token) =
                    SaturatingSum(NowSince2000(ResultToken.issued_at),
                                  ResultToken.expiry_in)
              /\ LeqW(NowSince2000(ResultToken.issued_at),
                      EmbeddedExpiry(ResultToken.token))

\* --------------------------------------------------------------------------
\* Claims about a changed trailer
\* --------------------------------------------------------------------------

\* The token as it was issued, and the values in the trailer presented.
Original == CHOOSE rec \in issued : TRUE

PresentedTrailer == DecodeTrailer(ResultToken.token.trailer)

\* The values validate_access_token reads from the trailer presented are the
\* ones the token was issued with.
ReadsIssuedValues ==
    /\ PresentedTrailer.ok
    /\ PresentedTrailer.val.account_id = Original.account_id
    /\ PresentedTrailer.val.client_id = Original.client_id
    /\ PresentedTrailer.val.expiry =
          WrappingAdd(NowSince2000(Original.issued_at), Original.expiry_in)

\* The account_id and the expiry of the trailer presented are written as
\* push_leb128 writes them, without redundant bytes.
ShortestNumbers ==
    /\ PresentedTrailer.ok
    /\ LET numbers == Leb128(PresentedTrailer.val.account_id)
                          \o Leb128(PresentedTrailer.val.expiry)
           trailer == ResultToken.token.trailer
       IN  /\ Len(numbers) <= Len(trailer)
           /\ SubSeq(trailer, 1, Len(numbers)) = numbers

\* C26: any change of the trailer of an issued token, the 32 bytes of
\* ciphertext and tag left intact, makes validate_access_token fail.  It is
\* stated of the changed trailers whose numbers are written as the encoder
\* writes them, so that a trailer that validates does so by lines 319-374
\* alone, whatever the reader makes of a longer encoding of a number.
C26_TamperedTrailerFails ==
    (result.op = "tampered" /\ ~result.pending /\ ShortestNumbers)
        => ~result.res.ok

\* The same of every changed trailer, longer encodings included.
AnyTamperedTrailerFails ==
    (result.op = "tampered" /\ ~result.pending) => ~result.res.ok

\* The token issued for client id U+00E9, whose trailer ends with the UTF-8
\* bytes C3 A9, was presented with the one byte E9 in their place.
PresentedLatin1 ==
    /\ result.op = "tampered"
    /\ ~result.pending
    /\ Original.client_id = CLIENT_e_acute
    /\ ResultToken.token.ct = Original.token.ct
    /\ ResultToken.token.trailer =
          Leb128(Original.account_id)
              \o Leb128(EmbeddedExpiry(Original.token)) \o <<233>>

\* Presented so, the token validates whenever it has not expired and the
\* password hash and the key are the ones of issuance.
Latin1Validates ==
    (/\ PresentedLatin1
     /\ ~ExpiredAt(Original, result.unix)
     /\ result.lookup_ok
     /\ result.grant_type = Original.grant_type
     /\ Original.core = result.core[1].id
     /\ Original.hash = FirstSecret(result.core[1], directory, Original.account_id))
    => /\ result.res.ok
       /\ result.res.val.client_id = Original.client_id

\* What holds of every changed trailer: validation succeeds only when the
\* values read from the trailer are the ones the token was issued with, and
\* returns exactly those.
TamperedReturnsIssued ==
    (result.op = "tampered" /\ ~result.pending /\ result.res.ok) =>
        /\ ReadsIssuedValues
        /\ result.res.val.account_id = Original.account_id
        /\ result.res.val.client_id = Original.client_id
        /\ result.res.val.time_left =
              SubW(EmbeddedExpiry(Original.token), NowSince2000(result.unix))

\* --------------------------------------------------------------------------
\* Claims about what a token request changes in the lookup store
\* --------------------------------------------------------------------------

\* Request p is about to delete the Authorized record of its code, whose
\* client_id, and redirect_uri for an authorization_code request, are those
\* of its form.
DeletesMatchedAuthorized(p) ==
    /\ req[p].pc = "delete"
    /\ LET form == req[p].form
           rec == lookup[CodeOf(form)]
       IN  /\ rec # None
           /\ rec[1].status = "Authorized"
           /\ form.client_id[1] = rec[1].client_id
           /\ EqIgnoreAsciiCase(form.grant_type, STR_authorization_code)
                 => form.redirect_uri[1] = rec[1].params
           /\ lookup' = [lookup EXCEPT ![CodeOf(form)] = None]

\* A step writes no record, and deletes none but a matched Authorized one.
StoreFrame ==
    /\ \A c \in Codes : lookup'[c] = lookup[c] \/ lookup'[c] = None
    /\ lookup' # lookup => \E p \in Reqs : DeletesMatchedAuthorized(p)

\* Request 1 is answered with an error response of the endpoint: it made no
\* key_delete and the record is in the store.
RefusedUntouched ==
    (req'[1].response # None /\ req'[1].response[1].kind = "error") =>
        /\ lookup'[CODE_1] # None
        /\ \A i \in DOMAIN store_log'[1] : store_log'[1][i].op = "key_get"

\* C27 (as claimed): a token request that does not grant a token leaves the
\* lookup store unchanged.
C27_NoGrantNoChange ==
    (Answered(1) /\ ResponseOf(1).kind # "granted") => lookup[CODE_1] # None

\* What holds of the store on every path: the endpoint never writes or
\* modifies a record; its only mutation is the deletion of an Authorized
\* record whose client_id (and redirect_uri) matched; a request answered with
\* an error response (Pending or TokenIssued record, mismatch, missing
\* parameter, unknown grant type) leaves the store as it was.
StoreFrameHolds ==
    [][StoreFrame /\ RefusedUntouched]_vars

\* --------------------------------------------------------------------------
\* Claims about the ingest loop of APPEND
\* --------------------------------------------------------------------------

\* The calls of the ingest port by the run of task t are for the messages
\* 1, 2, ... of the command in this order, no further than the last one.
IngestedPrefix(t) ==
    /\ Len(IngestsOf(t)) <= tasks[t].arguments.messages
    /\ \A i \in DOMAIN IngestsOf(t) : IngestsOf(t)[i].index = i

\* A failed call is the last call of the run, and the loop is left.
StopsAtFirstError(t) ==
    \A i \in DOMAIN IngestsOf(t) :
        IngestsOf(t)[i].outcome # "Ok" =>
            i = Len(IngestsOf(t)) /\ tasks[t].pc # "ingest"

\* The run of task t had a failed call of the ingest port.
IngestFailed(t) ==
    \E i \in DOMAIN IngestsOf(t) : IngestsOf(t)[i].outcome # "Ok"

\* The documents created before the failure stay in created_ids, and are
\* broadcast once the run is past its broadcast.
NotRolledBack(t) ==
    /\ tasks[t].created_ids =
          [i \in 1..Len(SuccessfulIngests(t)) |-> SuccessfulIngests(t)[i].document_id]
    /\ (PastBroadcast(t) /\ SuccessfulIngests(t) # <<>>) =>
          /\ Len(BroadcastsOf(t)) = 1
          /\ BroadcastsOf(t)[1].Email
                = SuccessfulIngests(t)[Len(SuccessfulIngests(t))].change_id

\* The run of task t returned and had ingested a message before a failure.
ReturnedAfterPartialIngest(t) ==
    /\ tasks[t].pc \in {"write", "done"}
    /\ IngestFailed(t)
    /\ SuccessfulIngests(t) # <<>>

\* The completed OK is returned and written only for a run that ingested
\* every message of the command.
CompletedOnlyIfAll(t) ==
    /\ (tasks[t].pc \in {"write", "done"} /\ tasks[t].ret.kind = "OK") =>
          Len(SuccessfulIngests(t)) = tasks[t].arguments.messages
    /\ \A i \in DOMAIN written :
          (/\ written[i].tag = t
           /\ written[i].kind = "OK"
           /\ written[i].message = "APPEND completed")
          => /\ ~IngestFailed(t)
             /\ Len(SuccessfulIngests(t)) = tasks[t].arguments.messages

\* C28 (as claimed): the ingest loop takes the messages strictly in input
\* order and stops at the first ingest error; the ingested messages are a
\* prefix of the input; the messages ingested before the failure are not
\* rolled back, they are still broadcast and still reported in the response;
\* the response is the completed OK only if every message was ingested.
C28_IngestPrefix ==
    \A t \in Tags :
        /\ IngestedPrefix(t)
        /\ StopsAtFirstError(t)
        /\ NotRolledBack(t)
        /\ ReturnedAfterPartialIngest(t) => tasks[t].ret.code.name = "APPENDUID"
        /\ CompletedOnlyIfAll(t)

\* C28 (amended): as claimed, but the messages ingested before the failure
\* are reported in the APPENDUID code only when the UID assembly succeeds;
\* when it fails the response is the tagged database failure and names none
\* of them.
C28_IngestPrefixAmended ==
    \A t \in Tags :
        /\ IngestedPrefix(t)
        /\ StopsAtFirstError(t)
        /\ NotRolledBack(t)
        /\ ReturnedAfterPartialIngest(t) =>
              \/ tasks[t].ret.code.name = "APPENDUID"
              \/ tasks[t].ret = WithTag(DatabaseFailure, t)
        /\ CompletedOnlyIfAll(t)

\* A command of three messages: the first was ingested, the second failed,
\* the third was never passed to the port; the first was broadcast and its
\* uid is in the response written.
C28_Witness ==
    /\ tasks["a1"].pc = "done"
    /\ tasks["a1"].arguments.messages = 3
    /\ Len(IngestsOf("a1")) = 2
    /\ IngestsOf("a1")[1].outcome = "Ok"
    /\ IngestsOf("a1")[2].outcome = "Permanent"
    /\ Len(BroadcastsOf("a1")) = 1
    /\ \E i \in DOMAIN written :
          /\ written[i].tag = "a1"
          /\ written[i].kind = "NO"
          /\ written[i].code.name = "APPENDUID"
          /\ Len(written[i].code.uids) = 1

\* --------------------------------------------------------------------------
\* Claims about the response of an APPEND command
\* --------------------------------------------------------------------------

\* The responses written to the session writer that carry tag t.
ResponsesOf(t) == SelectSeq(written, LAMBDA r : r.tag = t)

\* The APPEND command of tag t is in the input of the session.
AppendPending(t) ==
    \E i \in DOMAIN imap_in : imap_in[i].kind = "APPEND" /\ imap_in[i].tag = t

\* C29: every APPEND command eventually produces exactly one status response
\* on the session writer, on every path, and that response carries the tag of
\* the command; never two responses, and never none for good.
C29_OneResponse ==
    /\ [](\A t \in Tags : Len(ResponsesOf(t)) <= 1)
    /\ [](Len(written) = Cardinality({t \in Tags : ResponsesOf(t) # <<>>}))
    /\ \A t \in Tags : AppendPending(t) ~> [](Len(ResponsesOf(t)) = 1)

\* Two APPEND commands were answered once each by their detached tasks, the
\* second before the first.
C29_Witness ==
    /\ tasks["a1"].pc = "done"
    /\ tasks["a2"].pc = "done"
    /\ Len(written) = 2
    /\ written[1].tag = "a2"
    /\ written[2].tag = "a1"
    /\ written[2].code.name = "APPENDUID"

====
